---- MODULE Spec2Model ----
(***************************************************************************)
(* A model of @lumjs/web-app: the WebApp base class (lifecycle latches,    *)
(* extension registration, compound dispatch) and the WebExtension base   *)
(* class (constructor, setApp, id).                                        *)
(*                                                                         *)
(* JavaScript runs one call to completion, but every trigger() hands       *)
(* control to user handlers which may call back into the Application.      *)
(* The model is therefore an interpreter over a call stack: every frame    *)
(* is one activation of a method of the source and every action is one     *)
(* step of the method on top of the stack.  A handler is user code: what   *)
(* it does (return, throw, call add/start/init) is drawn with \E.          *)
(*                                                                         *)
(* WebExtension.setApp reads the Application's started latch, which        *)
(* lib/app.js stores as $started and the later WebApp as this[CTX.STARTED];*)
(* the model has one latch per Application, started[a].                    *)
(*                                                                         *)
(* log records what the host's current call did, in order: deliveries,     *)
(* calls handlers made, what _addExt did with each object.  last records   *)
(* the host's call and how it ended.  nStart, nInit and added are history  *)
(* only.  Spec has one Application and handlers that call back or throw;   *)
(* SpecTwo has two Applications that hand extensions to one another.       *)
(***************************************************************************)
EXTENDS Integers, Sequences, FiniteSets, TLC

\* ------------------------------------------------------------- bounds
MaxOps  == 2   \* calls the host program makes on constructed Applications
MaxNest == 1   \* times a handler does more than return: calls back, or throws
MaxWsOps == 3  \* calls the host program makes when it uses webservices
MaxMoves == 3  \* calls the host program makes when it moves extensions about
MaxIdReads == 4  \* ids the host program asks the registries for directly

\* --------------------------------------------------------- the universe
Apps    == {"A", "B"}          \* WebApp instances the host may construct
NoApp   == "null"              \* the app=null default of the constructor
Classes == {"PageExt", "NavExt"}
\* the instances the classes can yield; p3 is a third PageExt, which the
\* host makes only to ask the id registry about it
Objs    == {"p1", "p2", "n1", "n2", "p3"}
None    == "-"

\* PageExt keeps the inherited id getter; NavExt overrides it: get id() {return 'nav'}
ClassOf(o) == IF o \in {"p1", "p2", "p3"} THEN "PageExt" ELSE "NavExt"
OverridesId(cls) == cls = "NavExt"
OwnId(cls) == "nav"

Events == {"init", "reinit", "start", "restart", "x"}

VARIABLES
  alloc,       \* a |-> "no", "building", "built", or "failed" (constructor threw)
  options,     \* a |-> this.options (allExtFirst, autoStart)
  autoStart,   \* a |-> this.state.autoStart
  extList,     \* a |-> this[CTX.EXTS_LIST]
  ext,         \* a |-> this.ext, a map from id to extension
  ws,          \* a |-> this.ws, a map from id to Webservice instance
  inited,      \* a |-> this[CTX.INITED]
  started,     \* a |-> this[CTX.STARTED]
  ready,       \* a |-> the WC.whenReady callback is registered and not yet run
  regCount,    \* a |-> idRegistry: base name |-> instances named so far
  regIds,      \* a |-> idRegistry: object |-> id assigned ("" if none)
  created,     \* o |-> "no", "building", "yes", or "failed" (constructor threw)
  extApp,      \* o |-> this.$app
  stack,       \* the call stack, innermost activation last
  log,         \* what the running (or last) host call did, in order
  last,        \* the running (or last) host call and how it ended
  ops,         \* host calls made so far
  nest,        \* times a handler has called back or thrown so far
  nStart,      \* a |-> times start() took its first-time branch
  nInit,       \* a |-> times init() took its first-time branch
  added,       \* a |-> the extension objects _addExt has been called with
  snap,        \* the array the host got from orderedExtensions
  retVals,     \* the Maps extCall collects into: the host's M, and the new one
  dataMaps,    \* a |-> this[CTX.DATA_MAPS], a map from key to Map
  hooks,       \* o |-> the handlers setupHook registered on o, oldest first
  mods,        \* the module registry: id |-> module
  modIds,      \* the module registry: module |-> id
  regApp,      \* the module registry: this.app, the Application for() has captured
  handles      \* the modules for which the host holds a ModuleRegistration

\* the state outside the extension machinery
regyVars == <<mods, modIds, regApp, handles>>
modVars == <<dataMaps, hooks, regyVars>>

vars == <<alloc, options, autoStart, extList, ext, inited, started, ready,
          regCount, regIds, created, extApp, stack, log, last, ops, nest,
          nStart, nInit, added, snap, modVars, ws, retVals>>

appVars == <<alloc, options, autoStart, extList, ext, ws, inited, started, ready>>
regVars == <<regCount, regIds>>
objVars == <<created, extApp>>
cntVars == <<nStart, nInit, added>>

\* ----------------------------------------------------------- frames
Frame(fn, app, ev, obj, i, pc, c, items, root) ==
  [fn |-> fn, app |-> app, ev |-> ev, obj |-> obj, i |-> i, pc |-> pc,
   c |-> c, items |-> items, root |-> root]

Top == stack[Len(stack)]
Running == Len(stack) > 0
At(fn, pc) == Running /\ Top.fn = fn /\ Top.pc = pc

\* a line of the log: t is what happened ("trigger", "call", "return",
\* "throw", "stored", "same", "error"), c the call it happened in (1 is the
\* host's call), hev and htgt the delivery whose handler made a call, pre
\* the latch the called method is about to test, args the arguments that
\* follow the event name in a delivery
Entry(t, ev, tgt, app, c, hev, htgt, pre) ==
  [t |-> t, ev |-> ev, tgt |-> tgt, app |-> app, c |-> c, hev |-> hev,
   htgt |-> htgt, pre |-> pre, args |-> <<>>]

\* the latch a call of fn on a is about to test
Latch(fn, a) ==
  IF a \notin Apps THEN None
  ELSE IF fn \in {"start", "whenReady"} THEN (IF started[a] THEN "set" ELSE "unset")
  ELSE IF fn = "init" THEN (IF inited[a] THEN "set" ELSE "unset")
  ELSE None

\* the caller moves to pc and calls f
CallFrom(pc, f) ==
  stack' = Append([stack EXCEPT ![Len(stack)].pc = pc], f)

\* the activation on top returns value to its caller
ReturnValue(entries, value) ==
  /\ stack' = SubSeq(stack, 1, Len(stack) - 1)
  /\ last' = IF Len(stack) = 1 THEN [last EXCEPT !.out = "returned", !.ret = value] ELSE last
  /\ log' = IF Top.root /\ Len(stack) > 1
            THEN log \o entries \o <<Entry("return", Top.fn, Top.obj, Top.app, Top.c, None, None, None)>>
            ELSE log \o entries

\* what a method the host called returns at its end: a constructor the
\* new object, init() nothing, the other methods `this`
Result ==
  IF Top.fn = "Extension" THEN Top.obj
  ELSE IF Top.fn = "init" THEN "undefined"
  ELSE Top.app

\* the activation on top ends
Return(entries) == ReturnValue(entries, Result)

\* an exception the dispatch loop catches: only the handler is abandoned
Throw_caught(what) ==
  /\ stack' = SubSeq(stack, 1, Len(stack) - 1)
  /\ last' = last
  /\ alloc' = alloc
  /\ created' = created

\* an exception nobody catches: every activation is abandoned
Throw(what) ==
  /\ stack' = <<>>
  /\ last' = [last EXCEPT !.out = what]
  /\ alloc' = [a \in Apps |-> IF alloc[a] = "building" THEN "failed" ELSE alloc[a]]
  /\ created' = [o \in Objs |-> IF created[o] = "building" THEN "failed" ELSE created[o]]

\* -------------------------------------------------------- id registry
\* className(name): name.replace(/Ext(ension)?$/i, '').toLowerCase()
className(name) == IF name = "PageExt" THEN "page" ELSE "nav"

Bases == {className(cls) : cls \in Classes}

\* idRegistry.id(obj) with a number behind every name (page1, page2, page3)
RegistryId_allNumbered(a, o) ==
  IF regIds[a][o] # "" THEN regIds[a][o]
  ELSE className(ClassOf(o)) \o ToString(regCount[a][className(ClassOf(o))] + 1)

\* idRegistry.id(obj): the cached id, or the base name, numbered from the
\* second instance on (page, page2, page3)
RegistryId(a, o) ==
  IF regIds[a][o] # "" THEN regIds[a][o]
  ELSE LET base == className(ClassOf(o))
           n    == regCount[a][base] + 1
       IN IF n = 1 THEN base ELSE base \o ToString(n)

RegistryAfter(a, o) ==
  IF regIds[a][o] # "" THEN <<regCount, regIds>>
  ELSE <<[regCount EXCEPT ![a][className(ClassOf(o))] = @ + 1],
         [regIds EXCEPT ![a][o] = RegistryId(a, o)]>>

\* WebExtension get id(): this.app.idRegistry.id(this), unless overridden.
\* Defined while the extension has an app (getApp(true) throws otherwise).
IdOf(o) ==
  IF OverridesId(ClassOf(o)) THEN OwnId(ClassOf(o)) ELSE RegistryId(extApp[o], o)

\* the registry after the id getter of o has run
IdRead(o) ==
  IF OverridesId(ClassOf(o)) THEN <<regCount, regIds>> ELSE RegistryAfter(extApp[o], o)

\* ------------------------------------------------------ initial state
EmptyMap == [id \in {} |-> None]
\* no Map has been given to extCall or made by it
NoMaps == [M |-> EmptyMap, new |-> EmptyMap]
NoCall == [fn |-> None, app |-> None, item |-> None, ev |-> None, items |-> <<>>,
           pre |-> None, out |-> None, ret |-> None]

DefaultOptions == [allExtFirst |-> FALSE, autoStart |-> TRUE]
OptionSets == [allExtFirst : BOOLEAN, autoStart : BOOLEAN]

Init ==
  /\ alloc = [a \in Apps |-> "no"]
  /\ options = [a \in Apps |-> DefaultOptions]
  /\ autoStart = [a \in Apps |-> TRUE]
  /\ extList = [a \in Apps |-> <<>>]
  /\ ext = [a \in Apps |-> EmptyMap]
  /\ ws = [a \in Apps |-> EmptyMap]
  /\ inited = [a \in Apps |-> FALSE]
  /\ started = [a \in Apps |-> FALSE]
  /\ ready = [a \in Apps |-> FALSE]
  /\ regCount = [a \in Apps |-> [b \in Bases |-> 0]]
  /\ regIds = [a \in Apps |-> [o \in Objs |-> ""]]
  /\ created = [o \in Objs |-> "no"]
  /\ extApp = [o \in Objs |-> NoApp]
  /\ stack = <<>>
  /\ log = <<>>
  /\ last = NoCall
  /\ ops = 0
  /\ nest = 0
  /\ nStart = [a \in Apps |-> 0]
  /\ nInit = [a \in Apps |-> 0]
  /\ added = [a \in Apps |-> {}]
  /\ snap = [ref |-> None, copy |-> <<>>, of |-> None, live |-> <<>>]
  /\ retVals = NoMaps
  /\ dataMaps = [a \in Apps |-> EmptyMap]
  /\ hooks = [o \in Objs |-> <<>>]
  /\ mods = EmptyMap
  /\ modIds = EmptyMap
  /\ regApp = None
  /\ handles = {}

\* a call made by the host program: a fresh log, call number 1
HostBegins(fn, a, item, ev, items) ==
  /\ stack = <<>>
  /\ last' = [fn |-> fn, app |-> a, item |-> item, ev |-> ev, items |-> items,
              pre |-> Latch(fn, a), out |-> "running", ret |-> None]
  /\ log' = <<>>
  /\ nest' = nest

\* ------------------------------------------------- WebApp constructor
\* new WebApp(options): the fields, then this.init(...arguments)
NewWebApp(a, opts) ==
  /\ alloc[a] = "no"
  /\ HostBegins("WebApp", a, None, None, <<>>)
  /\ alloc' = [alloc EXCEPT ![a] = "building"]
  /\ options' = [options EXCEPT ![a] = opts]
  /\ autoStart' = [autoStart EXCEPT ![a] = opts.autoStart]
  /\ extList' = [extList EXCEPT ![a] = <<>>]
  /\ ext' = [ext EXCEPT ![a] = EmptyMap]
  /\ ws' = [ws EXCEPT ![a] = EmptyMap]
  /\ inited' = [inited EXCEPT ![a] = FALSE]
  /\ started' = [started EXCEPT ![a] = FALSE]
  /\ stack' = << Frame("WebApp", a, None, None, 0, "ready", 1, <<>>, TRUE),
                 Frame("init", a, None, None, 0, "test", 1, <<>>, FALSE) >>
  /\ UNCHANGED <<retVals, ready, regVars, objVars, ops, cntVars, snap, modVars>>

\* ... if (this.options.autoStart) WC.whenReady(...), as before 1.3.0
WebAppReady_fromOptions ==
  /\ At("WebApp", "ready")
  /\ ready' = [ready EXCEPT ![Top.app] = options[Top.app].autoStart]
  /\ alloc' = [alloc EXCEPT ![Top.app] = "built"]
  /\ Return(<<>>)
  /\ UNCHANGED <<ws, retVals, options, autoStart, extList, ext, inited, started, regVars,
                 objVars, ops, nest, cntVars, snap, modVars>>

\* ... if (this.state.autoStart) WC.whenReady(() => this.start())
WebAppReady ==
  /\ At("WebApp", "ready")
  /\ ready' = [ready EXCEPT ![Top.app] = autoStart[Top.app]]
  /\ alloc' = [alloc EXCEPT ![Top.app] = "built"]
  /\ Return(<<>>)
  /\ UNCHANGED <<ws, retVals, options, autoStart, extList, ext, inited, started, regVars,
                 objVars, ops, nest, cntVars, snap, modVars>>

\* the init() of a sub-class, or its handler of `init`, writes
\* this.state.autoStart while the constructor runs
InitSetsAutoStart(v) ==
  /\ At("trigger", "handler")
  /\ Top.ev = "init" /\ Top.obj = Top.app /\ Top.app \in Apps
  /\ alloc[Top.app] = "building"
  /\ autoStart[Top.app] # v
  /\ nest < MaxNest
  /\ nest' = nest + 1
  /\ autoStart' = [autoStart EXCEPT ![Top.app] = v]
  /\ UNCHANGED <<ws, retVals, alloc, options, extList, ext, inited, started, ready,
                 regVars, objVars, stack, log, last, ops, cntVars, snap, modVars>>

\* ------------------------------------------------------ init / start
\* init() whose repeated call fires `reinit` with the event name alone
init_reinitAlone ==
  /\ Running /\ Top.fn = "init"
  /\ \/ /\ Top.pc = "test" /\ inited[Top.app]
        /\ CallFrom("ret", Frame("triggerAll", Top.app, "reinit", None, 0, "call", Top.c, <<>>, FALSE))
        /\ UNCHANGED <<inited, nInit, log, last>>
     \/ /\ Top.pc = "test" /\ ~inited[Top.app]
        /\ CallFrom("def", Frame("trigger", Top.app, "init", Top.app, 0, "fire", Top.c, <<>>, FALSE))
        /\ nInit' = [nInit EXCEPT ![Top.app] = @ + 1]
        /\ UNCHANGED <<inited, log, last>>
     \/ /\ Top.pc = "def"
        /\ inited' = [inited EXCEPT ![Top.app] = TRUE]
        /\ Return(<<>>)
        /\ UNCHANGED nInit
     \/ /\ Top.pc = "ret"
        /\ Return(<<>>)
        /\ UNCHANGED <<inited, nInit>>
  /\ UNCHANGED <<ws, retVals, alloc, options, autoStart, extList, ext, started, ready,
                 regVars, objVars, ops, nest, nStart, added, snap, modVars>>

\* init(): this.triggerAll('reinit', ...arguments) when inited, else
\* this.trigger('init', ...arguments) and the latch
init ==
  /\ Running /\ Top.fn = "init"
  /\ \/ /\ Top.pc = "test" /\ inited[Top.app]
        /\ CallFrom("ret", Frame("triggerAll", Top.app, "reinit", None, 0, "call", Top.c, Top.items, FALSE))
        /\ UNCHANGED <<inited, nInit, log, last>>
     \/ /\ Top.pc = "test" /\ ~inited[Top.app]
        /\ CallFrom("def", Frame("trigger", Top.app, "init", Top.app, 0, "fire", Top.c, Top.items, FALSE))
        /\ nInit' = [nInit EXCEPT ![Top.app] = @ + 1]
        /\ UNCHANGED <<inited, log, last>>
     \/ /\ Top.pc = "def"
        /\ inited' = [inited EXCEPT ![Top.app] = TRUE]
        /\ Return(<<>>)
        /\ UNCHANGED nInit
     \/ /\ Top.pc = "ret"
        /\ Return(<<>>)
        /\ UNCHANGED <<inited, nInit>>
  /\ UNCHANGED <<ws, retVals, alloc, options, autoStart, extList, ext, started, ready,
                 regVars, objVars, ops, nest, nStart, added, snap, modVars>>

\* start() as the specification describes it: the latch is set first and
\* the event fired after
start_latchFirst ==
  /\ Running /\ Top.fn = "start"
  /\ \/ /\ Top.pc = "test" /\ started[Top.app]
        /\ CallFrom("ret", Frame("triggerAll", Top.app, "restart", None, 0, "call", Top.c, <<>>, FALSE))
        /\ UNCHANGED <<started, nStart, log, last>>
     \/ /\ Top.pc = "test" /\ ~started[Top.app]
        /\ started' = [started EXCEPT ![Top.app] = TRUE]
        /\ CallFrom("def", Frame("triggerAll", Top.app, "start", None, 0, "call", Top.c, <<>>, FALSE))
        /\ nStart' = [nStart EXCEPT ![Top.app] = @ + 1]
        /\ UNCHANGED <<log, last>>
     \/ /\ Top.pc \in {"def", "ret"}
        /\ Return(<<>>)
        /\ UNCHANGED <<started, nStart>>
  /\ UNCHANGED <<ws, retVals, alloc, options, autoStart, extList, ext, inited, ready,
                 regVars, objVars, ops, nest, nInit, added, snap, modVars>>

\* start() whose restart branch clears the latch when it is done
start_restartClears ==
  /\ Running /\ Top.fn = "start"
  /\ \/ /\ Top.pc = "test" /\ started[Top.app]
        /\ CallFrom("ret", Frame("triggerAll", Top.app, "restart", None, 0, "call", Top.c, <<>>, FALSE))
        /\ UNCHANGED <<started, nStart, log, last>>
     \/ /\ Top.pc = "test" /\ ~started[Top.app]
        /\ CallFrom("def", Frame("triggerAll", Top.app, "start", None, 0, "call", Top.c, <<>>, FALSE))
        /\ nStart' = [nStart EXCEPT ![Top.app] = @ + 1]
        /\ UNCHANGED <<started, log, last>>
     \/ /\ Top.pc = "def"
        /\ started' = [started EXCEPT ![Top.app] = TRUE]
        /\ Return(<<>>)
        /\ UNCHANGED nStart
     \/ /\ Top.pc = "ret"
        /\ started' = [started EXCEPT ![Top.app] = FALSE]
        /\ Return(<<>>)
        /\ UNCHANGED nStart
  /\ UNCHANGED <<ws, retVals, alloc, options, autoStart, extList, ext, inited, ready,
                 regVars, objVars, ops, nest, nInit, added, snap, modVars>>

start ==
  /\ Running /\ Top.fn = "start"
  /\ \/ /\ Top.pc = "test" /\ started[Top.app]
        /\ CallFrom("ret", Frame("triggerAll", Top.app, "restart", None, 0, "call", Top.c, <<>>, FALSE))
        /\ UNCHANGED <<started, nStart, log, last>>
     \/ /\ Top.pc = "test" /\ ~started[Top.app]
        /\ CallFrom("def", Frame("triggerAll", Top.app, "start", None, 0, "call", Top.c, <<>>, FALSE))
        /\ nStart' = [nStart EXCEPT ![Top.app] = @ + 1]
        /\ UNCHANGED <<started, log, last>>
     \/ /\ Top.pc = "def"
        /\ started' = [started EXCEPT ![Top.app] = TRUE]
        /\ Return(<<>>)
        /\ UNCHANGED nStart
     \/ /\ Top.pc = "ret"
        /\ Return(<<>>)
        /\ UNCHANGED <<started, nStart>>
  /\ UNCHANGED <<ws, retVals, alloc, options, autoStart, extList, ext, inited, ready,
                 regVars, objVars, ops, nest, nInit, added, snap, modVars>>

\* --------------------------------------------------- compound dispatch
\* triggerAll() of the releases before 1.3.0: this first, whatever the option
triggerAll_thisFirst ==
  /\ At("triggerAll", "call")
  /\ stack' = [stack EXCEPT ![Len(stack)] =
                 [@ EXCEPT !.fn = "triggerThisExt", !.pc = "first"]]
  /\ UNCHANGED <<retVals, appVars, regVars, objVars, log, last, ops, nest, cntVars, snap, modVars>>

\* triggerAll(): return this.options.allExtFirst ? triggerExtThis : triggerThisExt
triggerAll ==
  /\ At("triggerAll", "call")
  /\ stack' = [stack EXCEPT ![Len(stack)] =
                 [@ EXCEPT !.fn = IF options[Top.app].allExtFirst
                                  THEN "triggerExtThis" ELSE "triggerThisExt",
                           !.pc = "first"]]
  /\ UNCHANGED <<retVals, appVars, regVars, objVars, log, last, ops, nest, cntVars, snap, modVars>>

\* the callee gets ...arguments: the event name and what followed it
TriggerFrame(tgt) == Frame("trigger", Top.app, Top.ev, tgt, 0, "fire", Top.c, Top.items, FALSE)
TriggerExtFrame == Frame("triggerExt", Top.app, Top.ev, None, 0, "loop", Top.c, Top.items, FALSE)

\* triggerThisExt(): this.trigger(...); this.triggerExt(...); return this
triggerThisExt ==
  /\ Running /\ Top.fn = "triggerThisExt"
  /\ \/ /\ Top.pc = "first"
        /\ CallFrom("second", TriggerFrame(Top.app))
        /\ UNCHANGED <<log, last>>
     \/ /\ Top.pc = "second"
        /\ CallFrom("ret", TriggerExtFrame)
        /\ UNCHANGED <<log, last>>
     \/ /\ Top.pc = "ret"
        /\ Return(<<>>)
  /\ UNCHANGED <<retVals, appVars, regVars, objVars, ops, nest, cntVars, snap, modVars>>

\* triggerExtThis(): this.triggerExt(...); this.trigger(...); return this
triggerExtThis ==
  /\ Running /\ Top.fn = "triggerExtThis"
  /\ \/ /\ Top.pc = "first"
        /\ CallFrom("second", TriggerExtFrame)
        /\ UNCHANGED <<log, last>>
     \/ /\ Top.pc = "second"
        /\ CallFrom("ret", TriggerFrame(Top.app))
        /\ UNCHANGED <<log, last>>
     \/ /\ Top.pc = "ret"
        /\ Return(<<>>)
  /\ UNCHANGED <<retVals, appVars, regVars, objVars, ops, nest, cntVars, snap, modVars>>

\* triggerExt() walking the list from its end
triggerExt_backwards ==
  /\ At("triggerExt", "loop")
  /\ \/ /\ Top.i < Len(extList[Top.app])
        /\ stack' = Append([stack EXCEPT ![Len(stack)].i = @ + 1],
                           TriggerFrame(extList[Top.app][Len(extList[Top.app]) - Top.i]))
        /\ UNCHANGED <<log, last>>
     \/ /\ Top.i >= Len(extList[Top.app])
        /\ Return(<<>>)
  /\ UNCHANGED <<retVals, appVars, regVars, objVars, ops, nest, cntVars, snap, modVars>>

\* triggerExt() over a copy of the list taken when the loop begins: the
\* extensions registered since are not visited
triggerExt_snapshot ==
  /\ At("triggerExt", "loop")
  /\ LET since == Cardinality({k \in DOMAIN log : log[k].t = "stored" /\ log[k].app = Top.app})
         n     == Len(extList[Top.app]) - since
     IN \/ /\ Top.i < n
           /\ stack' = Append([stack EXCEPT ![Len(stack)].i = @ + 1],
                              TriggerFrame(extList[Top.app][Top.i + 1]))
           /\ UNCHANGED <<log, last>>
        \/ /\ Top.i >= n
           /\ Return(<<>>)
  /\ UNCHANGED <<retVals, appVars, regVars, objVars, ops, nest, cntVars, snap, modVars>>

\* triggerExt(): for (const ext of this[CTX.EXTS_LIST]) ext.trigger(...)
\* The array iterator reads the live array: i counts the elements visited.
triggerExt ==
  /\ At("triggerExt", "loop")
  /\ \/ /\ Top.i < Len(extList[Top.app])
        /\ stack' = Append([stack EXCEPT ![Len(stack)].i = @ + 1],
                           TriggerFrame(extList[Top.app][Top.i + 1]))
        /\ UNCHANGED <<log, last>>
     \/ /\ Top.i >= Len(extList[Top.app])
        /\ Return(<<>>)
  /\ UNCHANGED <<retVals, appVars, regVars, objVars, ops, nest, cntVars, snap, modVars>>

\* ---------------------------------------------------------- setupHook
\* PageExt defines hello(), NavExt does not
HasMethod(cls, meth) == cls = "PageExt" /\ meth = "hello"

\* setupHook(ename, mname=ename): if (typeof this[mname] === F)
\* this.on(ename, () => this[mname](...arguments)).  The handler is an
\* arrow function, which has no `arguments` of its own: the name is that
\* of setupHook, whose arguments are argv.
setupHook(o, argv) ==
  LET ename == argv[1]
      mname == IF Len(argv) >= 2 THEN argv[2] ELSE ename
  IN IF HasMethod(ClassOf(o), mname)
     THEN Append(hooks[o], [ename |-> ename, mname |-> mname, args |-> argv])
     ELSE hooks[o]

\* the methods the hooks of o call when ev is triggered on o, each with
\* the arguments its handler passes
HookCalls(o, ev, app, c) ==
  IF o \notin Objs THEN <<>>
  ELSE LET hs == SelectSeq(hooks[o], LAMBDA h : h.ename = ev)
       IN [k \in 1..Len(hs) |->
             [Entry("hook", hs[k].mname, o, app, c, ev, None, None) EXCEPT !.args = hs[k].args]]

\* ---------------------------------------------- trigger and handlers
\* trigger(ev) on an Application or an extension: the event reaches the
\* target's handlers
trigger ==
  /\ At("trigger", "fire")
  /\ log' = Append(log, [Entry("trigger", Top.ev, Top.obj, Top.app, Top.c, None, None, None)
                            EXCEPT !.args = Top.items])
            \o HookCalls(Top.obj, Top.ev, Top.app, Top.c)
  /\ stack' = [stack EXCEPT ![Len(stack)].pc = "handler"]
  /\ UNCHANGED <<retVals, appVars, regVars, objVars, last, ops, nest, cntVars, snap, modVars>>

\* no handler, or the handlers are done
HandlerReturns ==
  /\ At("trigger", "handler")
  /\ Return(<<>>)
  /\ UNCHANGED <<retVals, appVars, regVars, objVars, ops, nest, cntVars, snap, modVars>>

\* the handler throws: the max-th thing at most that handlers do
HandlerThrowsAt(max) ==
  /\ At("trigger", "handler")
  /\ nest < max
  /\ nest' = nest + 1
  /\ Throw("threw")
  /\ log' = Append(log, Entry("throw", Top.ev, Top.obj, Top.app, Top.c, None, None, None))
  /\ UNCHANGED <<ws, retVals, options, autoStart, extList, ext, inited, started, ready,
                 regVars, extApp, ops, cntVars, snap, modVars>>

HandlerThrows == HandlerThrowsAt(MaxNest)

\* a handler calls app.start(), app.init() or app.add(item) on the
\* Application whose dispatch reached it
HandlerCalls(fn, item) ==
  /\ At("trigger", "handler")
  /\ nest < MaxNest
  /\ Top.app \in Apps
  /\ nest' = nest + 1
  /\ log' = Append(log, Entry("call", fn, item, Top.app, nest + 2, Top.ev, Top.obj,
                              Latch(fn, Top.app)))
  /\ stack' = Append(stack, Frame(fn, Top.app, None, item, 0, "test", nest + 2, <<>>, TRUE))
  /\ UNCHANGED <<retVals, appVars, regVars, objVars, last, ops, cntVars, snap, modVars>>

\* -------------------------------------------------------- WebExtension
ObjOrder == <<"p1", "p2", "n1", "n2">>
Unbuilt(cls) == {k \in 1..Len(ObjOrder) : ClassOf(ObjOrder[k]) = cls /\ created[ObjOrder[k]] = "no"}
\* the object a `new cls(...)` expression yields
Fresh(cls) == ObjOrder[CHOOSE k \in Unbuilt(cls) : \A j \in Unbuilt(cls) : k <= j]

\* constructor(app=null): this.trigger('init', ...arguments); this.setApp(app)
WebExtension ==
  /\ Running /\ Top.fn = "Extension"
  /\ \/ /\ Top.pc = "init"
        /\ CallFrom("setApp", Frame("trigger", Top.app, "init", Top.obj, 0, "fire", Top.c, <<>>, FALSE))
        /\ UNCHANGED <<created, log, last>>
     \/ /\ Top.pc = "setApp"
        /\ CallFrom("ret", Frame("setApp", Top.app, None, Top.obj, 0, "test", Top.c, <<>>, FALSE))
        /\ UNCHANGED <<created, log, last>>
     \/ /\ Top.pc = "ret"
        /\ created' = [created EXCEPT ![Top.obj] = "yes"]
        /\ Return(<<>>)
  /\ UNCHANGED <<retVals, appVars, regVars, extApp, ops, nest, cntVars, snap, modVars>>

\* setApp(app) that sends 'start' whatever this.$app was
setApp_alwaysStart ==
  /\ Running /\ Top.fn = "setApp"
  /\ \/ /\ Top.pc = "test" /\ Top.app \in Apps /\ started[Top.app]
        /\ CallFrom("def", Frame("trigger", Top.app, "start",
                                 Top.obj, 0, "fire", Top.c, <<>>, FALSE))
        /\ UNCHANGED <<alloc, created, extApp, log, last>>
     \/ /\ Top.pc = "test" /\ Top.app \notin Apps /\ Top.ev = "validate"
        /\ Throw("TypeError")
        /\ log' = Append(log, Entry("error", "Invalid App instance", Top.obj, Top.app, Top.c, None, None, None))
        /\ UNCHANGED extApp
     \/ /\ \/ Top.pc = "test" /\ Top.app \in Apps /\ ~started[Top.app]
           \/ Top.pc = "test" /\ Top.app \notin Apps /\ Top.ev # "validate"
           \/ Top.pc = "def"
        /\ extApp' = [extApp EXCEPT ![Top.obj] = Top.app]
        /\ Return(<<>>)
        /\ UNCHANGED <<alloc, created>>
  /\ UNCHANGED <<retVals, options, autoStart, extList, ext, ws, inited, started, ready,
                 regVars, ops, nest, cntVars, snap, modVars>>

\* setApp(app) that hands the extension over: the Application it leaves
\* forgets it
setApp_transfers ==
  /\ Running /\ Top.fn = "setApp"
  /\ \/ /\ Top.pc = "test" /\ Top.app \in Apps /\ started[Top.app]
        /\ CallFrom("def", Frame("trigger", Top.app,
                                 IF extApp[Top.obj] = NoApp THEN "start" ELSE "restart",
                                 Top.obj, 0, "fire", Top.c, <<>>, FALSE))
        /\ UNCHANGED <<alloc, created, extApp, log, last, extList, ext>>
     \/ /\ Top.pc = "test" /\ Top.app \notin Apps /\ Top.ev = "validate"
        /\ Throw("TypeError")
        /\ log' = Append(log, Entry("error", "Invalid App instance", Top.obj, Top.app, Top.c, None, None, None))
        /\ UNCHANGED <<extApp, extList, ext>>
     \/ /\ \/ Top.pc = "test" /\ Top.app \in Apps /\ ~started[Top.app]
           \/ Top.pc = "test" /\ Top.app \notin Apps /\ Top.ev # "validate"
           \/ Top.pc = "def"
        /\ extApp' = [extApp EXCEPT ![Top.obj] = Top.app]
        /\ extList' = [a \in Apps |->
                         IF a = extApp[Top.obj] /\ a # Top.app
                         THEN SelectSeq(extList[a], LAMBDA o : o # Top.obj) ELSE extList[a]]
        /\ ext' = [a \in Apps |->
                     IF a = extApp[Top.obj] /\ a # Top.app
                     THEN [k \in {j \in DOMAIN ext[a] : ext[a][j] # Top.obj} |-> ext[a][k]]
                     ELSE ext[a]]
        /\ Return(<<>>)
        /\ UNCHANGED <<alloc, created>>
  /\ UNCHANGED <<retVals, options, autoStart, ws, inited, started, ready,
                 regVars, ops, nest, cntVars, snap, modVars>>

\* setApp(app, validate): an extension given to a started Application is
\* told so, 'start' if it had no app yet and 'restart' if it had; a value
\* that is no Application is a TypeError when validate is set (the `app`
\* setter sets it); then $app = app
setApp ==
  /\ Running /\ Top.fn = "setApp"
  /\ \/ /\ Top.pc = "test" /\ Top.app \in Apps /\ started[Top.app]
        /\ CallFrom("def", Frame("trigger", Top.app,
                                 IF extApp[Top.obj] = NoApp THEN "start" ELSE "restart",
                                 Top.obj, 0, "fire", Top.c, <<>>, FALSE))
        /\ UNCHANGED <<alloc, created, extApp, log, last>>
     \/ /\ Top.pc = "test" /\ Top.app \notin Apps /\ Top.ev = "validate"
        /\ Throw("TypeError")
        /\ log' = Append(log, Entry("error", "Invalid App instance", Top.obj, Top.app, Top.c, None, None, None))
        /\ UNCHANGED extApp
     \/ /\ \/ Top.pc = "test" /\ Top.app \in Apps /\ ~started[Top.app]
           \/ Top.pc = "test" /\ Top.app \notin Apps /\ Top.ev # "validate"
           \/ Top.pc = "def"
        /\ extApp' = [extApp EXCEPT ![Top.obj] = Top.app]
        /\ Return(<<>>)
        /\ UNCHANGED <<alloc, created>>
  /\ UNCHANGED <<retVals, options, autoStart, extList, ext, ws, inited, started, ready,
                 regVars, ops, nest, cntVars, snap, modVars>>

\* get app() as getApp(false): the value of $app, whatever it is
getApp_unvalidated ==
  /\ Running /\ Top.fn = "get"
  /\ \/ /\ extApp[Top.obj] \notin Apps \/ Top.ev = "app"
        /\ ReturnValue(<<>>, extApp[Top.obj])
        /\ UNCHANGED <<alloc, created, regVars>>
     \/ /\ extApp[Top.obj] \in Apps /\ Top.ev = "id"
        /\ ReturnValue(<<>>, IdOf(Top.obj))
        /\ regCount' = IdRead(Top.obj)[1]
        /\ regIds' = IdRead(Top.obj)[2]
        /\ UNCHANGED <<alloc, created>>
  /\ UNCHANGED <<retVals, options, autoStart, extList, ext, ws, inited, started, ready,
                 extApp, ops, nest, cntVars, snap, modVars>>

\* get app(): getApp(true), a RangeError unless $app is an Application;
\* get id(): this.app.idRegistry.id(this), so the same test comes first
getApp ==
  /\ Running /\ Top.fn = "get"
  /\ \/ /\ extApp[Top.obj] \notin Apps
        /\ Throw("RangeError")
        /\ log' = Append(log, Entry("throw", "App instance not set", Top.obj, Top.app, Top.c, None, None, None))
        /\ UNCHANGED regVars
     \/ /\ extApp[Top.obj] \in Apps /\ Top.ev = "app"
        /\ ReturnValue(<<>>, extApp[Top.obj])
        /\ UNCHANGED <<alloc, created, regVars>>
     \/ /\ extApp[Top.obj] \in Apps /\ Top.ev = "id"
        /\ ReturnValue(<<>>, IdOf(Top.obj))
        /\ regCount' = IdRead(Top.obj)[1]
        /\ regIds' = IdRead(Top.obj)[2]
        /\ UNCHANGED <<alloc, created>>
  /\ UNCHANGED <<retVals, options, autoStart, extList, ext, ws, inited, started, ready,
                 extApp, ops, nest, cntVars, snap, modVars>>

\* a handler of an extension reads this.app or this.id
HandlerReads(what) ==
  /\ At("trigger", "handler")
  /\ Top.obj \in Objs
  /\ nest < MaxNest
  /\ nest' = nest + 1
  /\ stack' = Append(stack, Frame("get", Top.app, what, Top.obj, 0, "test", Top.c, <<>>, FALSE))
  /\ log' = Append(log, Entry("read", what, Top.obj, Top.app, Top.c, Top.ev, Top.obj, None))
  /\ UNCHANGED <<retVals, appVars, regVars, objVars, last, ops, cntVars, snap, modVars>>

\* ---------------------------------------------------------------- add
\* _addExt(ext) with unshift in the place of push
_addExt_unshift(a, o) ==
  LET id == IdOf(o) IN
  IF id \in DOMAIN ext[a]
  THEN [list |-> extList[a], map |-> ext[a],
        said |-> IF ext[a][id] # o
                 THEN <<Entry("error", "Duplicate extension", o, a, Top.c, None, None, None)>>
                 ELSE <<Entry("same", id, o, a, Top.c, None, None, None)>>]
  ELSE [list |-> <<o>> \o extList[a], map |-> ext[a] @@ (id :> o),
        said |-> <<Entry("stored", id, o, a, Top.c, None, None, None)>>]

\* _addExt(ext) of the first release: push and store, whatever the id
_addExt_v1_0(a, o) ==
  LET id == IdOf(o) IN
  [list |-> Append(extList[a], o),
   map |-> [k \in DOMAIN ext[a] \cup {id} |-> IF k = id THEN o ELSE ext[a][k]],
   said |-> <<Entry("stored", id, o, a, Top.c, None, None, None)>>]

\* _addExt(ext) without the return that ends the id-in-use branch
_addExt_noReturn(a, o) ==
  LET id == IdOf(o) IN
  [list |-> Append(extList[a], o),
   map |-> [k \in DOMAIN ext[a] \cup {id} |-> IF k = id THEN o ELSE ext[a][k]],
   said |-> IF id \notin DOMAIN ext[a]
            THEN <<Entry("stored", id, o, a, Top.c, None, None, None)>>
            ELSE IF ext[a][id] # o
            THEN <<Entry("error", "Duplicate extension", o, a, Top.c, None, None, None)>>
            ELSE <<Entry("same", id, o, a, Top.c, None, None, None)>>]

\* _addExt(ext) without the final this.ext[id] = ext
_addExt_listOnly(a, o) ==
  LET id == IdOf(o) IN
  IF id \in DOMAIN ext[a]
  THEN [list |-> extList[a], map |-> ext[a],
        said |-> IF ext[a][id] # o
                 THEN <<Entry("error", "Duplicate extension", o, a, Top.c, None, None, None)>>
                 ELSE <<Entry("same", id, o, a, Top.c, None, None, None)>>]
  ELSE [list |-> Append(extList[a], o), map |-> ext[a],
        said |-> <<Entry("stored", id, o, a, Top.c, None, None, None)>>]

\* _addExt(ext): look the id up in this.ext; an id in use is left alone
\* (and reported when it belongs to another object); else push and store.
\* Yields the new list, the new map and what it wrote with console.error.
_addExt(a, o) ==
  LET id == IdOf(o) IN
  IF id \in DOMAIN ext[a]
  THEN [list |-> extList[a], map |-> ext[a],
        said |-> IF ext[a][id] # o
                 THEN <<Entry("error", "Duplicate extension", o, a, Top.c, None, None, None)>>
                 ELSE <<Entry("same", id, o, a, Top.c, None, None, None)>>]
  ELSE [list |-> Append(extList[a], o), map |-> ext[a] @@ (id :> o),
        said |-> <<Entry("stored", id, o, a, Top.c, None, None, None)>>]

\* ------------------------------------------------------- webservices
\* @lumjs/web-service, as add() uses it: a Webservice has an _id; a
\* Builder made by WS.make({id}) builds the Webservice of that id and
\* signals 'build' with it to the handlers registered with on()
SvcIds   == {"api", "db"}
Services == {"apiSvc", "dbSvc"}            \* Webservice instances of the host
\* _buildWebservice(id): WS.make({id}), with (ws) => this.add(ws) on 'build'
_buildWebservice(a, id) == "wsb:" \o id \o "@" \o a
WiredBuilders == {_buildWebservice(a, id) : a \in Apps, id \in SvcIds}
\* a Builder of the host, nothing registered on it
Builders == WiredBuilders \cup {"wsb:db"}
BuilderId(b) ==
  IF b = "wsb:db" THEN "db" ELSE CHOOSE id \in SvcIds : \E a \in Apps : b = _buildWebservice(a, id)
\* the Application whose add() the 'build' signal of b runs
WiredTo(b) ==
  IF b = "wsb:db" THEN NoApp ELSE CHOOSE a \in Apps : \E id \in SvcIds : b = _buildWebservice(a, id)
\* the Webservice that b.build() yields
build(b) == "ws:" \o b
BuiltServices == {build(b) : b \in Builders}
_id(w) == IF w = "apiSvc" THEN "api"
          ELSE IF w = "dbSvc" THEN "db"
          ELSE CHOOSE id \in SvcIds : \E b \in Builders : w = build(b) /\ BuilderId(b) = id

\* typeof v, for the values programs pass that are not extensions
typeOf(v) ==
  IF v = "f" THEN "function"
  ELSE IF v \in {"hello", "x"} THEN "string"
  ELSE IF v \in {"true", "false"} THEN "boolean"
  ELSE IF v = "7" THEN "number"
  ELSE IF v = "undefined" THEN "undefined"
  ELSE "object"

\* values add() has no branch for: a number, a function that is no
\* Extension class, a plain object
Invalid == {"7", "f", "{}"}

\* this.ws = {[key]: value} in the place of this.ws[key] = value
Put_alone(map, key, value) == [k \in {key} |-> value]

\* map[key] = value
Put(map, key, value) == [k \in DOMAIN map \cup {key} |-> IF k = key THEN value ELSE map[k]]

\* _invalid(type, added) that only reports: add() goes on to return this
_invalid_reports(type, item) ==
  /\ Return(<<Entry("error", "Invalid " \o type, item, Top.app, Top.c, None, None, None)>>)
  /\ alloc' = alloc
  /\ created' = created

\* _invalid(type, added) under an array loop that catches what
\* this.add(sex) throws and goes on with the next element
_invalid_caughtInLoop(type, item) ==
  /\ log' = Append(log, Entry("error", "Invalid " \o type, item, Top.app, Top.c, None, None, None))
  /\ stack' = IF Len(stack) > 1 THEN SubSeq(stack, 1, Len(stack) - 1) ELSE <<>>
  /\ last' = IF Len(stack) > 1 THEN last ELSE [last EXCEPT !.out = "TypeError"]
  /\ alloc' = alloc
  /\ created' = created

\* _invalid(type, added): console.error, then throw new TypeError
_invalid(type, item) ==
  /\ Throw("TypeError")
  /\ log' = Append(log, Entry("error", "Invalid " \o type, item, Top.app, Top.c, None, None, None))

\* add(ext): the array, string, class, instance, Webservice and Builder
\* branches, and the TypeError for everything else
add ==
  /\ Running /\ Top.fn = "add"
  /\ \/ /\ Top.pc = "test" /\ Top.obj = "array" /\ Top.i < Len(Top.items)
        /\ stack' = Append([stack EXCEPT ![Len(stack)].i = @ + 1],
                           Frame("add", Top.app, None, Top.items[Top.i + 1], 0, "test", Top.c, <<>>, FALSE))
        /\ UNCHANGED <<alloc, extList, ext, ws, regVars, objVars, added, log, last>>
     \/ /\ Top.pc = "test" /\ Top.obj = "array" /\ Top.i >= Len(Top.items)
        /\ Return(<<>>)
        /\ UNCHANGED <<alloc, extList, ext, ws, regVars, objVars, added>>
     \/ /\ Top.pc = "test" /\ Top.obj \in SvcIds
        /\ ReturnValue(<<>>, _buildWebservice(Top.app, Top.obj))
        /\ UNCHANGED <<alloc, extList, ext, ws, regVars, objVars, added>>
     \/ /\ Top.pc = "test" /\ Top.obj \in Invalid /\ typeOf(Top.obj) = "function"
        /\ _invalid("Extension class", Top.obj)
        /\ UNCHANGED <<extList, ext, ws, regVars, extApp, added>>
     \/ /\ Top.pc = "test" /\ Top.obj \in Classes /\ Unbuilt(Top.obj) # {}
        /\ LET o == Fresh(Top.obj) IN
             /\ stack' = Append([stack EXCEPT ![Len(stack)] = [@ EXCEPT !.pc = "addExt", !.obj = o]],
                                Frame("Extension", Top.app, None, o, 0, "init", Top.c, <<>>, FALSE))
             /\ created' = [created EXCEPT ![o] = "building"]
        /\ UNCHANGED <<alloc, extList, ext, ws, regVars, extApp, added, log, last>>
     \/ /\ Top.pc = "test" /\ Top.obj \in Objs /\ extApp[Top.obj] # Top.app
        /\ CallFrom("addExt", Frame("setApp", Top.app, None, Top.obj, 0, "test", Top.c, <<>>, FALSE))
        /\ UNCHANGED <<alloc, extList, ext, ws, regVars, objVars, added, log, last>>
     \/ /\ \/ Top.pc = "test" /\ Top.obj \in Objs /\ extApp[Top.obj] = Top.app
           \/ Top.pc = "addExt"
        /\ LET r == _addExt(Top.app, Top.obj) IN
             /\ extList' = [extList EXCEPT ![Top.app] = r.list]
             /\ ext' = [ext EXCEPT ![Top.app] = r.map]
             /\ Return(r.said)
        /\ regCount' = IdRead(Top.obj)[1]
        /\ regIds' = IdRead(Top.obj)[2]
        /\ added' = [added EXCEPT ![Top.app] = @ \cup {Top.obj}]
        /\ UNCHANGED <<alloc, ws, objVars>>
     \/ /\ Top.pc = "test" /\ Top.obj \in Services \cup BuiltServices
        /\ ws' = [ws EXCEPT ![Top.app] = Put(@, _id(Top.obj), Top.obj)]
        /\ Return(<<Entry("service", _id(Top.obj), Top.obj, Top.app, Top.c, None, None, None)>>)
        /\ UNCHANGED <<alloc, extList, ext, regVars, objVars, added>>
     \/ /\ Top.pc = "test" /\ Top.obj \in Builders
        /\ CallFrom("store", Frame("build", WiredTo(Top.obj), None, Top.obj, 0, "make", Top.c, <<>>, FALSE))
        /\ UNCHANGED <<alloc, extList, ext, ws, regVars, objVars, added, log, last>>
     \/ /\ Top.pc = "store"
        /\ ws' = [ws EXCEPT ![Top.app] = Put(@, _id(build(Top.obj)), build(Top.obj))]
        /\ Return(<<Entry("service", _id(build(Top.obj)), build(Top.obj), Top.app, Top.c, None, None, None)>>)
        /\ UNCHANGED <<alloc, extList, ext, regVars, objVars, added>>
     \/ /\ Top.pc = "test" /\ Top.obj \in Invalid /\ typeOf(Top.obj) # "function"
        /\ _invalid("Extension or Webservice instance", Top.obj)
        /\ UNCHANGED <<extList, ext, ws, regVars, extApp, added>>
  /\ UNCHANGED <<options, autoStart, inited, started, ready, ops, nest,
                 nStart, nInit, snap, modVars, retVals>>

\* Builder#build() of a builder on which _buildWebservice registered nothing
Builder_build_unwired ==
  /\ Running /\ Top.fn = "build"
  /\ ReturnValue(<<>>, build(Top.obj))
  /\ UNCHANGED <<appVars, regVars, objVars, ops, nest, cntVars, snap, modVars, retVals>>

\* Builder#build(): the Webservice is made and signalled: the handler
\* _buildWebservice registered runs this.add(ws); then it is returned
Builder_build ==
  /\ Running /\ Top.fn = "build"
  /\ \/ /\ Top.pc = "make" /\ Top.app \in Apps
        /\ CallFrom("ret", Frame("add", Top.app, None, build(Top.obj), 0, "test", Top.c, <<>>, FALSE))
        /\ UNCHANGED <<log, last>>
     \/ /\ \/ Top.pc = "make" /\ Top.app \notin Apps
           \/ Top.pc = "ret"
        /\ ReturnValue(<<>>, build(Top.obj))
  /\ UNCHANGED <<appVars, regVars, objVars, ops, nest, cntVars, snap, modVars, retVals>>

\* ------------------------------------------------------------ extCall
\* the values a program passes to extCall: a function f, the method name
\* "hello", the number 7, a Map M, booleans, option objects, an argument x
Options == {"{rv:M}", "{rv:true}", "{rv:M,fn:f}", "{rv:true,fn:f}", "{fn:hello}", "{rv:M,fn:7}"}
\* the rv and the fn property of an option object
rvOf(v) ==
  IF v \in {"{rv:M}", "{rv:M,fn:f}", "{rv:M,fn:7}"} THEN "M"
  ELSE IF v \in {"{rv:true}", "{rv:true,fn:f}"} THEN "true"
  ELSE "undefined"
fnOf(v) ==
  IF v \in {"{rv:M,fn:f}", "{rv:true,fn:f}"} THEN "f"
  ELSE IF v = "{fn:hello}" THEN "hello"
  ELSE IF v = "{rv:M,fn:7}" THEN "7"
  ELSE "undefined"

\* args.shift(): the first element, undefined when there is none
shift(args) == IF args = <<>> THEN "undefined" ELSE Head(args)
shifted(args) == IF args = <<>> THEN <<>> ELSE Tail(args)

\* the options read with args.shift() done whether or not they name the call
Resolve_alwaysShifts(argv) ==
  LET fn      == shift(argv)
      args    == shifted(argv)
      wrapped == fn = "M" \/ typeOf(fn) = "boolean"
      isOpts  == wrapped \/ typeOf(fn) = "object"
      rv      == IF wrapped THEN fn ELSE rvOf(fn)
      named   == IF wrapped THEN "undefined" ELSE fnOf(fn)
      byName  == typeOf(named) \in {"function", "string"}
  IN [retVals |-> IF ~isOpts THEN None
                  ELSE IF rv = "M" THEN "M"
                  ELSE IF rv = "true" THEN "new" ELSE None,
      retMap  |-> isOpts /\ rv = "true",
      fn      |-> IF ~isOpts THEN fn ELSE IF byName THEN named ELSE shift(args),
      args    |-> IF isOpts THEN shifted(args) ELSE args]

\* the first part of extCall(fn, ...args): which Map collects the return
\* values (None, the host's "M" or a "new" one), whether it is what
\* extCall returns, the call to make and the arguments it gets
Resolve(argv) ==
  LET fn      == shift(argv)
      args    == shifted(argv)
      wrapped == fn = "M" \/ typeOf(fn) = "boolean"
      isOpts  == wrapped \/ typeOf(fn) = "object"
      rv      == IF wrapped THEN fn ELSE rvOf(fn)
      named   == IF wrapped THEN "undefined" ELSE fnOf(fn)
      byName  == typeOf(named) \in {"function", "string"}
  IN [retVals |-> IF ~isOpts THEN None
                  ELSE IF rv = "M" THEN "M"
                  ELSE IF rv = "true" THEN "new" ELSE None,
      retMap  |-> isOpts /\ rv = "true",
      fn      |-> IF ~isOpts THEN fn ELSE IF byName THEN named ELSE shift(args),
      args    |-> IF isOpts /\ ~byName THEN shifted(args) ELSE args]

\* retVals.set(ext, retVal), when there is a retVals
Collect(which, o, v) ==
  IF which = None THEN retVals
  ELSE [retVals EXCEPT ![which] = [k \in DOMAIN @ \cup {o} |-> IF k = o THEN v ELSE @[k]]]

\* extCall() whose method wrapper is not called on an extension without
\* the method, so that nothing is collected for it
extCall_skipsUnrecorded ==
  /\ Running /\ Top.fn = "extCall"
  /\ \/ /\ Top.pc = "opts"
        /\ LET r == Resolve(Top.items) IN
             /\ typeOf(r.fn) \in {"function", "string"}
             /\ stack' = [stack EXCEPT ![Len(stack)] =
                            [@ EXCEPT !.ev = r.fn, !.obj = r.retVals, !.items = r.args, !.pc = "loop"]]
             /\ retVals' = IF r.retMap THEN [retVals EXCEPT !.new = EmptyMap] ELSE retVals
        /\ UNCHANGED <<log, last, alloc, created>>
     \/ /\ Top.pc = "opts"
        /\ typeOf(Resolve(Top.items).fn) \notin {"function", "string"}
        /\ Throw("TypeError")
        /\ UNCHANGED <<log, retVals>>
     \/ /\ Top.pc = "loop" /\ Top.i < Len(extList[Top.app])
        /\ LET o == extList[Top.app][Top.i + 1] IN
             IF typeOf(Top.ev) = "string" /\ ~HasMethod(ClassOf(o), Top.ev)
             THEN /\ stack' = [stack EXCEPT ![Len(stack)].i = @ + 1]
                  /\ retVals' = retVals
                  /\ log' = log
             ELSE /\ stack' = Append([stack EXCEPT ![Len(stack)].i = @ + 1],
                                     Frame("callback", Top.app, Top.ev, o, 0, "run", Top.c, Top.items, FALSE))
                  /\ log' = Append(log, [Entry("extcall", Top.ev, o, Top.app, Top.c, None, None, None)
                                            EXCEPT !.args = Top.items])
                  /\ retVals' = retVals
        /\ UNCHANGED <<last, alloc, created>>
     \/ /\ Top.pc = "loop" /\ Top.i >= Len(extList[Top.app])
        /\ ReturnValue(<<>>, IF Top.obj = "new" THEN "new" ELSE Top.app)
        /\ UNCHANGED <<retVals, alloc, created>>
  /\ UNCHANGED <<options, autoStart, extList, ext, ws, inited, started, ready,
                 regVars, extApp, ops, nest, cntVars, snap, modVars>>

\* extCall() ending with return retVals ?? this
extCall_returnsSink ==
  /\ Running /\ Top.fn = "extCall"
  /\ \/ /\ Top.pc = "opts"
        /\ LET r == Resolve(Top.items) IN
             /\ typeOf(r.fn) \in {"function", "string"}
             /\ stack' = [stack EXCEPT ![Len(stack)] =
                            [@ EXCEPT !.ev = r.fn, !.obj = r.retVals, !.items = r.args, !.pc = "loop"]]
             /\ retVals' = IF r.retMap THEN [retVals EXCEPT !.new = EmptyMap] ELSE retVals
        /\ UNCHANGED <<log, last, alloc, created>>
     \/ /\ Top.pc = "opts"
        /\ typeOf(Resolve(Top.items).fn) \notin {"function", "string"}
        /\ Throw("TypeError")
        /\ UNCHANGED <<log, retVals>>
     \/ /\ Top.pc = "loop" /\ Top.i < Len(extList[Top.app])
        /\ LET o == extList[Top.app][Top.i + 1] IN
             IF typeOf(Top.ev) = "string" /\ ~HasMethod(ClassOf(o), Top.ev)
             THEN /\ stack' = [stack EXCEPT ![Len(stack)].i = @ + 1]
                  /\ retVals' = Collect(Top.obj, o, "undefined")
                  /\ log' = log
             ELSE /\ stack' = Append([stack EXCEPT ![Len(stack)].i = @ + 1],
                                     Frame("callback", Top.app, Top.ev, o, 0, "run", Top.c, Top.items, FALSE))
                  /\ log' = Append(log, [Entry("extcall", Top.ev, o, Top.app, Top.c, None, None, None)
                                            EXCEPT !.args = Top.items])
                  /\ retVals' = retVals
        /\ UNCHANGED <<last, alloc, created>>
     \/ /\ Top.pc = "loop" /\ Top.i >= Len(extList[Top.app])
        /\ ReturnValue(<<>>, IF Top.obj # None THEN Top.obj ELSE Top.app)
        /\ UNCHANGED <<retVals, alloc, created>>
  /\ UNCHANGED <<options, autoStart, extList, ext, ws, inited, started, ready,
                 regVars, extApp, ops, nest, cntVars, snap, modVars>>

\* extCall() without the type test: a target that is no function is taken
\* for the name of a method
extCall_unchecked ==
  /\ Running /\ Top.fn = "extCall"
  /\ \/ /\ Top.pc = "opts"
        /\ LET r == Resolve(Top.items) IN
             /\ TRUE
             /\ stack' = [stack EXCEPT ![Len(stack)] =
                            [@ EXCEPT !.ev = r.fn, !.obj = r.retVals, !.items = r.args, !.pc = "loop"]]
             /\ retVals' = IF r.retMap THEN [retVals EXCEPT !.new = EmptyMap] ELSE retVals
        /\ UNCHANGED <<log, last, alloc, created>>
     \/ /\ Top.pc = "opts"
        /\ FALSE
        /\ Throw("TypeError")
        /\ UNCHANGED <<log, retVals>>
     \/ /\ Top.pc = "loop" /\ Top.i < Len(extList[Top.app])
        /\ LET o == extList[Top.app][Top.i + 1] IN
             IF typeOf(Top.ev) # "function" /\ ~HasMethod(ClassOf(o), Top.ev)
             THEN /\ stack' = [stack EXCEPT ![Len(stack)].i = @ + 1]
                  /\ retVals' = Collect(Top.obj, o, "undefined")
                  /\ log' = log
             ELSE /\ stack' = Append([stack EXCEPT ![Len(stack)].i = @ + 1],
                                     Frame("callback", Top.app, Top.ev, o, 0, "run", Top.c, Top.items, FALSE))
                  /\ log' = Append(log, [Entry("extcall", Top.ev, o, Top.app, Top.c, None, None, None)
                                            EXCEPT !.args = Top.items])
                  /\ retVals' = retVals
        /\ UNCHANGED <<last, alloc, created>>
     \/ /\ Top.pc = "loop" /\ Top.i >= Len(extList[Top.app])
        /\ ReturnValue(<<>>, IF Top.obj = "new" THEN "new" ELSE Top.app)
        /\ UNCHANGED <<retVals, alloc, created>>
  /\ UNCHANGED <<options, autoStart, extList, ext, ws, inited, started, ready,
                 regVars, extApp, ops, nest, cntVars, snap, modVars>>

\* extCall(fn, ...args): the options, then fn(ext, ...args) for every
\* element of the list, then the Map or this
extCall ==
  /\ Running /\ Top.fn = "extCall"
  /\ \/ /\ Top.pc = "opts"
        /\ LET r == Resolve(Top.items) IN
             /\ typeOf(r.fn) \in {"function", "string"}
             /\ stack' = [stack EXCEPT ![Len(stack)] =
                            [@ EXCEPT !.ev = r.fn, !.obj = r.retVals, !.items = r.args, !.pc = "loop"]]
             /\ retVals' = IF r.retMap THEN [retVals EXCEPT !.new = EmptyMap] ELSE retVals
        /\ UNCHANGED <<log, last, alloc, created>>
     \/ /\ Top.pc = "opts"
        /\ typeOf(Resolve(Top.items).fn) \notin {"function", "string"}
        /\ Throw("TypeError")
        /\ UNCHANGED <<log, retVals>>
     \/ /\ Top.pc = "loop" /\ Top.i < Len(extList[Top.app])
        /\ LET o == extList[Top.app][Top.i + 1] IN
             IF typeOf(Top.ev) = "string" /\ ~HasMethod(ClassOf(o), Top.ev)
             THEN /\ stack' = [stack EXCEPT ![Len(stack)].i = @ + 1]
                  /\ retVals' = Collect(Top.obj, o, "undefined")
                  /\ log' = log
             ELSE /\ stack' = Append([stack EXCEPT ![Len(stack)].i = @ + 1],
                                     Frame("callback", Top.app, Top.ev, o, 0, "run", Top.c, Top.items, FALSE))
                  /\ log' = Append(log, [Entry("extcall", Top.ev, o, Top.app, Top.c, None, None, None)
                                            EXCEPT !.args = Top.items])
                  /\ retVals' = retVals
        /\ UNCHANGED <<last, alloc, created>>
     \/ /\ Top.pc = "loop" /\ Top.i >= Len(extList[Top.app])
        /\ ReturnValue(<<>>, IF Top.obj = "new" THEN "new" ELSE Top.app)
        /\ UNCHANGED <<retVals, alloc, created>>
  /\ UNCHANGED <<options, autoStart, extList, ext, ws, inited, started, ready,
                 regVars, extApp, ops, nest, cntVars, snap, modVars>>

\* what a callback or a method may return
Values == {"u", "v"}

\* a loop that drops what the callback returned
CallbackReturns_dropped(v) ==
  /\ At("callback", "run")
  /\ stack' = SubSeq(stack, 1, Len(stack) - 1)
  /\ retVals' = retVals
  /\ log' = Append(log, Entry("result", v, Top.obj, Top.app, Top.c, None, None, None))
  /\ UNCHANGED <<appVars, regVars, objVars, last, ops, nest, cntVars, snap, modVars>>

\* the callback returns v to the loop of extCall, which puts it in retVals
CallbackReturns(v) ==
  /\ At("callback", "run")
  /\ stack' = SubSeq(stack, 1, Len(stack) - 1)
  /\ retVals' = Collect(stack[Len(stack) - 1].obj, Top.obj, v)
  /\ log' = Append(log, Entry("result", v, Top.obj, Top.app, Top.c, None, None, None))
  /\ UNCHANGED <<appVars, regVars, objVars, last, ops, nest, cntVars, snap, modVars>>

CallbackThrows ==
  /\ At("callback", "run")
  /\ nest < MaxNest
  /\ nest' = nest + 1
  /\ Throw("threw")
  /\ log' = Append(log, Entry("throw", Top.ev, Top.obj, Top.app, Top.c, None, None, None))
  /\ UNCHANGED <<options, autoStart, extList, ext, ws, inited, started, ready,
                 regVars, extApp, ops, cntVars, snap, modVars, retVals>>

\* the callback calls a method of the Application before it returns
CallbackCalls(fn, item) ==
  /\ At("callback", "run")
  /\ nest < MaxNest
  /\ Top.app \in Apps
  /\ nest' = nest + 1
  /\ log' = Append(log, Entry("call", fn, item, Top.app, nest + 2, Top.ev, Top.obj,
                              Latch(fn, Top.app)))
  /\ stack' = Append(stack, Frame(fn, Top.app, None, item, 0, "test", nest + 2, <<>>, TRUE))
  /\ UNCHANGED <<retVals, appVars, regVars, objVars, last, ops, cntVars, snap, modVars>>

\* -------------------------------------------------- orderedExtensions
\* get orderedExtensions(): this[CTX.EXTS_LIST].slice(), a new array
slice(l) == SubSeq(l, 1, Len(l))

\* get orderedExtensions() handing out the list itself
orderedExtensions_live(a) ==
  [ref |-> a, copy |-> <<>>, of |-> a, live |-> extList[a]]

orderedExtensions(a) ==
  [ref |-> "copy", copy |-> slice(extList[a]), of |-> a, live |-> extList[a]]

\* the elements of the array the host holds
SnapNow == IF snap.ref = "copy" THEN snap.copy
           ELSE IF snap.ref \in Apps THEN extList[snap.ref] ELSE <<>>

Reverse(l) == [k \in 1..Len(l) |-> l[Len(l) + 1 - k]]

\* Array.prototype.push, pop and reverse
Edited(l, how, o) ==
  CASE how = "push" -> Append(l, o)
    [] how = "pop" -> SubSeq(l, 1, Len(l) - 1)
    [] OTHER -> Reverse(l)

\* ------------------------------------------------------ the host program
HostEvents == {"x"}
Batches == { <<"NavExt", "PageExt">>, <<"NavExt", "NavExt", "PageExt">>,
             <<"n1", "n1">>, <<"n1", "PageExt">>, <<"p1", "n1">> }
\* the arrays two Applications are given
TwoBatches == { <<"PageExt", "p1">>, <<"p1", "PageExt">>, <<"NavExt", "p1">> }
\* arrays with webservices and with values add() rejects
WsBatches == { <<"PageExt", "7", "NavExt">>, <<"apiSvc", "f", "dbSvc">>,
               <<"NavExt", "dbSvc", "{}">>, <<"f", "PageExt">>, <<"dbSvc", "PageExt">> }
BatchIndex == UNION {DOMAIN b : b \in Batches \cup TwoBatches \cup WsBatches}

\* the host has item in hand: it got it from its last call
Held(item) == last.out = "returned" /\ last.ret = item

\* the values the host can pass: the classes and the literals, the
\* instances that have been constructed, the builders and services it
\* made or was given
Built(item) ==
  \/ item \in Classes \cup SvcIds \cup Services \cup Invalid \cup (Builders \ WiredBuilders)
  \/ item \in Objs /\ created[item] = "yes"
  \/ item \in WiredBuilders \cup BuiltServices /\ Held(item)

\* a class, or an instance made with `new cls()` that has no app yet
Unattached(item) == Built(item) /\ (item \in Objs => extApp[item] = NoApp)

\* Objs is finite: the program never asks for more instances of a class
\* than are left.  Wanted counts the `new cls` the calls in progress are
\* still going to make, InItems those an array asks for.
InItems(items, cls) == Cardinality({k \in DOMAIN items : items[k] = cls})
Wanted(cls) ==
  Cardinality({fk \in (DOMAIN stack) \X BatchIndex :
                 /\ stack[fk[1]].fn = "add" /\ stack[fk[1]].obj = "array"
                 /\ fk[2] > stack[fk[1]].i /\ fk[2] <= Len(stack[fk[1]].items)
                 /\ stack[fk[1]].items[fk[2]] = cls})
Left(cls) == Cardinality(Unbuilt(cls)) - Wanted(cls)

HostCountsTo(max) ==
  /\ ops < max
  /\ ops' = ops + 1

HostCounts == HostCountsTo(MaxOps)

\* a start() by the host that takes the ready callback back
HostLifecycleTo_withdraws(max, fn, a) ==
  /\ alloc[a] = "built"
  /\ HostCountsTo(max)
  /\ HostBegins(fn, a, None, None, <<>>)
  /\ stack' = <<Frame(fn, a, None, None, 0, "test", 1, <<>>, TRUE)>>
  /\ ready' = [ready EXCEPT ![a] = IF fn = "start" THEN FALSE ELSE @]
  /\ UNCHANGED <<retVals, alloc, options, autoStart, extList, ext, ws, inited, started,
                 regVars, objVars, cntVars, snap, modVars>>

\* app.start() or app.init(), one of at most max calls
HostLifecycleTo(max, fn, a) ==
  /\ alloc[a] = "built"
  /\ HostCountsTo(max)
  /\ HostBegins(fn, a, None, None, <<>>)
  /\ stack' = <<Frame(fn, a, None, None, 0, "test", 1, <<>>, TRUE)>>
  /\ UNCHANGED <<retVals, appVars, regVars, objVars, cntVars, snap, modVars>>

HostLifecycle(fn, a) == HostLifecycleTo(MaxOps, fn, a)

\* the argument lists the host passes to init and start
ArgLists == {<<"x">>, <<"x", "y">>}

\* app.start(...args) or app.init(...args), one of at most max calls
HostLifecycleWith(max, fn, a, args) ==
  /\ alloc[a] = "built"
  /\ HostCountsTo(max)
  /\ HostBegins(fn, a, None, None, args)
  /\ stack' = <<Frame(fn, a, None, None, 0, "test", 1, args, TRUE)>>
  /\ UNCHANGED <<retVals, appVars, regVars, objVars, cntVars, snap, modVars>>

\* app.triggerAll(ev), app.triggerThisExt(ev), app.triggerExtThis(ev), app.triggerExt(ev)
HostTriggers(fn, a, ev) ==
  /\ alloc[a] = "built"
  /\ HostCounts
  /\ HostBegins(fn, a, None, ev, <<>>)
  /\ stack' = <<Frame(fn, a, ev, None, 0,
                      IF fn = "triggerAll" THEN "call" ELSE IF fn = "triggerExt" THEN "loop" ELSE "first",
                      1, <<>>, TRUE)>>
  /\ UNCHANGED <<retVals, appVars, regVars, objVars, cntVars, snap, modVars>>

\* app.add(item), item an extension class or instance
HostAddsTo(max, a, item) ==
  /\ alloc[a] = "built"
  /\ Built(item)
  /\ item \in Classes => Left(item) >= 1
  /\ HostCountsTo(max)
  /\ HostBegins("add", a, item, None, <<>>)
  /\ stack' = <<Frame("add", a, None, item, 0, "test", 1, <<>>, TRUE)>>
  /\ UNCHANGED <<retVals, appVars, regVars, objVars, cntVars, snap, modVars>>

HostAdds(a, item) == HostAddsTo(MaxOps, a, item)

\* app.add(item), item an id, a Webservice, a Builder or none of these
HostAddsService(a, item) ==
  /\ alloc[a] = "built"
  /\ Built(item)
  /\ HostCountsTo(MaxWsOps)
  /\ HostBegins("add", a, item, None, <<>>)
  /\ stack' = <<Frame("add", a, None, item, 0, "test", 1, <<>>, TRUE)>>
  /\ UNCHANGED <<retVals, appVars, regVars, objVars, cntVars, snap, modVars>>

\* wsb.build(), wsb the builder that app.add(id) returned
HostBuilds(b) ==
  /\ Held(b)
  /\ HostCountsTo(MaxWsOps)
  /\ HostBegins("build", WiredTo(b), b, None, <<>>)
  /\ stack' = <<Frame("build", WiredTo(b), None, b, 0, "make", 1, <<>>, TRUE)>>
  /\ UNCHANGED <<retVals, appVars, regVars, objVars, cntVars, snap, modVars>>

\* app.add([item, ...])
HostAddsArray(a, items) ==
  /\ alloc[a] = "built"
  /\ \A k \in DOMAIN items : Built(items[k])
  /\ \A cls \in Classes : Left(cls) >= InItems(items, cls)
  /\ HostCounts
  /\ HostBegins("add", a, "array", None, items)
  /\ stack' = <<Frame("add", a, None, "array", 0, "test", 1, items, TRUE)>>
  /\ UNCHANGED <<retVals, appVars, regVars, objVars, cntVars, snap, modVars>>

\* new cls(app) or new cls()
HostNewExtensionTo(max, cls, app) ==
  /\ app \in Apps => alloc[app] = "built"
  /\ Left(cls) >= 1
  /\ HostCountsTo(max)
  /\ HostBegins("Extension", app, Fresh(cls), None, <<>>)
  /\ stack' = <<Frame("Extension", app, None, Fresh(cls), 0, "init", 1, <<>>, TRUE)>>
  /\ created' = [created EXCEPT ![Fresh(cls)] = "building"]
  /\ UNCHANGED <<retVals, appVars, regVars, extApp, cntVars, snap, modVars>>

HostNewExtension(cls, app) == HostNewExtensionTo(MaxOps, cls, app)

\* app.extCall(...argv)
CallShapes == { <<"f", "x">>, <<"hello">>, <<"M", "f", "x">>, <<"true", "hello">>,
                <<"{rv:M}", "f", "x">>, <<"{rv:M,fn:f}", "x">>, <<"{rv:true,fn:f}", "x">>,
                <<"7">>, <<"{rv:M}">>, <<"{rv:M,fn:7}", "f">>, <<"false", "f">>,
                <<"M", "hello", "x">> }
HostExtCall(a, argv) ==
  /\ alloc[a] = "built"
  /\ HostCounts
  /\ HostBegins("extCall", a, None, None, argv)
  /\ stack' = <<Frame("extCall", a, None, None, 0, "opts", 1, argv, TRUE)>>
  /\ UNCHANGED <<retVals, appVars, regVars, objVars, cntVars, snap, modVars>>

\* app.extCall(...argv), one of at most max calls
HostExtCallTo(max, a, argv) ==
  /\ alloc[a] = "built"
  /\ HostCountsTo(max)
  /\ HostBegins("extCall", a, None, None, argv)
  /\ stack' = <<Frame("extCall", a, None, None, 0, "opts", 1, argv, TRUE)>>
  /\ UNCHANGED <<retVals, appVars, regVars, objVars, cntVars, snap, modVars>>

\* app.idRegistry.id(o)
HostReadsId(a, o) ==
  /\ alloc[a] = "built" /\ created[o] = "yes"
  /\ stack = <<>>
  /\ HostCountsTo(MaxIdReads)
  /\ last' = [fn |-> "id", app |-> a, item |-> o, ev |-> None, items |-> <<>>,
              pre |-> IF regIds[a][o] # "" THEN "known" ELSE "new",
              out |-> "returned", ret |-> RegistryId(a, o)]
  /\ regCount' = RegistryAfter(a, o)[1]
  /\ regIds' = RegistryAfter(a, o)[2]
  /\ log' = <<>>
  /\ UNCHANGED <<retVals, appVars, objVars, stack, nest, cntVars, snap, modVars>>

\* values that are no Application
NonApps == {NoApp, "{}"}

\* ext.app or ext.id, read by the host
HostReads(o, what) ==
  /\ created[o] = "yes"
  /\ HostCounts
  /\ HostBegins("get", extApp[o], o, what, <<>>)
  /\ stack' = <<Frame("get", extApp[o], what, o, 0, "test", 1, <<>>, TRUE)>>
  /\ UNCHANGED <<retVals, appVars, regVars, objVars, cntVars, snap, modVars>>

\* ext.app = v
HostSetsApp(o, v) ==
  /\ created[o] = "yes"
  /\ v \in Apps => alloc[v] = "built"
  /\ HostCounts
  /\ HostBegins("set", v, o, None, <<>>)
  /\ stack' = <<Frame("setApp", v, "validate", o, 0, "test", 1, <<>>, TRUE)>>
  /\ UNCHANGED <<retVals, appVars, regVars, objVars, cntVars, snap, modVars>>

\* the host signals readiness: the callback () => this.start() runs, once
whenReady(a) ==
  /\ ready[a]
  /\ HostCounts
  /\ HostBegins("whenReady", a, None, None, <<>>)
  /\ ready' = [ready EXCEPT ![a] = FALSE]
  /\ stack' = <<Frame("start", a, None, None, 0, "test", 1, <<>>, TRUE)>>
  /\ UNCHANGED <<ws, retVals, alloc, options, autoStart, extList, ext, inited, started,
                 regVars, objVars, cntVars, snap, modVars>>

\* const list = app.orderedExtensions; then list.push(o), list.pop() or
\* list.reverse(): the write goes to the array the getter returned
HostEditsList(a, how, o) ==
  /\ alloc[a] = "built"
  /\ HostCounts
  /\ stack = <<>>
  /\ last' = [fn |-> "orderedExtensions", app |-> a, item |-> o, ev |-> how,
              items |-> <<>>, pre |-> None, out |-> "returned", ret |-> "array"]
  /\ log' = <<>>
  /\ nest' = nest
  /\ LET got == orderedExtensions(a)
         old == IF got.ref = "copy" THEN got.copy ELSE extList[got.ref]
         new == Edited(old, how, o)
     IN /\ how = "pop" => old # <<>>
        /\ snap' = IF got.ref = "copy" THEN [got EXCEPT !.copy = new] ELSE got
        /\ extList' = IF got.ref \in Apps THEN [extList EXCEPT ![got.ref] = new] ELSE extList
  /\ stack' = stack
  /\ UNCHANGED <<ws, retVals, alloc, options, autoStart, ext, inited, started, ready,
                 regVars, objVars, cntVars, modVars>>

\* ext.setupHook(...argv) and ext.trigger(ev, ...args) by the host
MaxHookOps == 3
HookShapes == {<<"hello">>, <<"x", "hello">>, <<"x">>, <<"y", "bye">>}
HostSetupHook(o, argv) ==
  /\ created[o] = "yes"
  /\ stack = <<>>
  /\ HostCountsTo(MaxHookOps)
  /\ last' = [fn |-> "setupHook", app |-> extApp[o], item |-> o, ev |-> argv[1], items |-> argv,
              pre |-> None, out |-> "returned", ret |-> o]
  /\ hooks' = [hooks EXCEPT ![o] = setupHook(o, argv)]
  /\ log' = <<>>
  /\ UNCHANGED <<retVals, appVars, regVars, objVars, stack, nest, cntVars, snap, dataMaps, regyVars>>

HostTriggersOn(o, ev, args) ==
  /\ created[o] = "yes"
  /\ HostCountsTo(MaxHookOps)
  /\ HostBegins("trigger", extApp[o], o, ev, args)
  /\ stack' = <<Frame("trigger", extApp[o], ev, o, 0, "fire", 1, args, TRUE)>>
  /\ UNCHANGED <<retVals, appVars, regVars, objVars, cntVars, snap, modVars>>

\* ------------------------------------------------------------ modules
\* the modules of the model: the Applications, the Extension classes and
\* instances, a plain object, an object with a use() method of its own,
\* an object with an id property ({id: 'tag'}), and a function that is no
\* Extension class
Plain    == {"obj", "hooked", "tagged"}
Modules  == Apps \cup Classes \cup Objs \cup Plain \cup {"fnMod"}
isComplex(mod) == mod \in Modules
isFun(mod) == mod \in Classes \cup {"fnMod"}
HasUse(mod) == mod = "hooked"
\* (isFun ? mod : mod.constructor).name
Name(mod) ==
  IF isFun(mod) THEN mod
  ELSE IF mod \in Objs THEN ClassOf(mod)
  ELSE IF mod \in Apps THEN "WebApp" ELSE "Object"
\* app.idRegistry.id(mod) for a module that is no extension instance: the
\* id registry a keeps for the object mod, one per registry and object
ModuleId(a, mod) == a \o "#" \o mod

\* Map.prototype.set
MapSet(m, k, v) == [x \in DOMAIN m \cup {k} |-> IF x = k THEN v ELSE m[x]]

\* use(id) asking the captured Application before the extension itself
ResolvedId_appFirst(id, mod, app) ==
  IF id # None THEN id
  ELSE IF mod \in Apps THEN ModuleId(mod, mod)
  ELSE IF app \in Apps THEN ModuleId(app, mod)
  ELSE IF mod \in Objs THEN IdOf(mod)
  ELSE Name(mod)

\* the id use(id) settles on when it can: lines 259-277
ResolvedId(id, mod, app) ==
  IF id # None THEN id
  ELSE IF mod \in Objs THEN IdOf(mod)
  ELSE IF mod \in Apps THEN ModuleId(mod, mod)
  ELSE IF app \in Apps THEN ModuleId(app, mod)
  ELSE Name(mod)

\* use(id) that looks for the id in the Map only when it is about to set it
use_testsLate ==
  /\ Running /\ Top.fn = "use"
  /\ \/ /\ Top.pc = "id"
        /\ Top.ev = None /\ Top.obj \in Objs /\ ~OverridesId(ClassOf(Top.obj))
        /\ extApp[Top.obj] \notin Apps
        /\ Throw("RangeError")
        /\ log' = Append(log, Entry("error", "App instance not set", Top.obj, Top.app, Top.c, None, None, None))
        /\ UNCHANGED <<regVars, mods, modIds>>
     \/ /\ Top.pc = "id"
        /\ ~(Top.ev = None /\ Top.obj \in Objs /\ ~OverridesId(ClassOf(Top.obj))
             /\ extApp[Top.obj] \notin Apps)
        /\ LET id == ResolvedId(Top.ev, Top.obj, Top.app) IN
             /\ stack' = [stack EXCEPT ![Len(stack)] = [@ EXCEPT !.ev = id, !.pc = "has"]]
             /\ regCount' = IF Top.ev = None /\ Top.obj \in Objs THEN IdRead(Top.obj)[1] ELSE regCount
             /\ regIds' = IF Top.ev = None /\ Top.obj \in Objs THEN IdRead(Top.obj)[2] ELSE regIds
        /\ UNCHANGED <<alloc, created, log, last, mods, modIds>>
     \/ /\ Top.pc = "set" /\ Top.ev \in DOMAIN mods
        /\ Throw("RangeError")
        /\ log' = Append(log, Entry("error", "already registered", Top.obj, Top.app, Top.c, Top.ev, None, None))
        /\ UNCHANGED <<regVars, mods, modIds>>
     \/ /\ Top.pc = "has"
        /\ IF HasUse(Top.obj) \/ (isFun(Top.obj) /\ Top.obj \notin Classes)
           THEN CallFrom("set", Frame("modhook", Top.app, Top.ev, Top.obj, 0, "run", Top.c, <<>>, FALSE))
           ELSE IF Top.app \in Apps /\ Top.obj \in Classes \cup Objs
           THEN CallFrom("set", Frame("add", Top.app, None, Top.obj, 0, "test", Top.c, <<>>, FALSE))
           ELSE stack' = [stack EXCEPT ![Len(stack)].pc = "set"]
        /\ UNCHANGED <<alloc, created, log, last, regVars, mods, modIds>>
     \/ /\ Top.pc = "set" /\ Top.ev \notin DOMAIN mods
        /\ mods' = MapSet(mods, Top.ev, Top.obj)
        /\ modIds' = MapSet(modIds, Top.obj, Top.ev)
        /\ ReturnValue(<<Entry("used", Top.ev, Top.obj, Top.app, Top.c, None, None, None)>>, "reg")
        /\ UNCHANGED <<alloc, created, regVars>>
  /\ UNCHANGED <<retVals, options, autoStart, extList, ext, ws, inited, started, ready,
                 extApp, ops, nest, cntVars, snap, dataMaps, hooks, regApp, handles>>

\* ModuleRegistration#use(id): the id, the test for a duplicate, the
\* module's own way of being used, and the two Maps
use ==
  /\ Running /\ Top.fn = "use"
  /\ \/ /\ Top.pc = "id"
        /\ Top.ev = None /\ Top.obj \in Objs /\ ~OverridesId(ClassOf(Top.obj))
        /\ extApp[Top.obj] \notin Apps
        /\ Throw("RangeError")
        /\ log' = Append(log, Entry("error", "App instance not set", Top.obj, Top.app, Top.c, None, None, None))
        /\ UNCHANGED <<regVars, mods, modIds>>
     \/ /\ Top.pc = "id"
        /\ ~(Top.ev = None /\ Top.obj \in Objs /\ ~OverridesId(ClassOf(Top.obj))
             /\ extApp[Top.obj] \notin Apps)
        /\ LET id == ResolvedId(Top.ev, Top.obj, Top.app) IN
             /\ stack' = [stack EXCEPT ![Len(stack)] = [@ EXCEPT !.ev = id, !.pc = "has"]]
             /\ regCount' = IF Top.ev = None /\ Top.obj \in Objs THEN IdRead(Top.obj)[1] ELSE regCount
             /\ regIds' = IF Top.ev = None /\ Top.obj \in Objs THEN IdRead(Top.obj)[2] ELSE regIds
        /\ UNCHANGED <<alloc, created, log, last, mods, modIds>>
     \/ /\ Top.pc = "has" /\ Top.ev \in DOMAIN mods
        /\ Throw("RangeError")
        /\ log' = Append(log, Entry("error", "already registered", Top.obj, Top.app, Top.c, Top.ev, None, None))
        /\ UNCHANGED <<regVars, mods, modIds>>
     \/ /\ Top.pc = "has" /\ Top.ev \notin DOMAIN mods
        /\ IF HasUse(Top.obj) \/ (isFun(Top.obj) /\ Top.obj \notin Classes)
           THEN CallFrom("set", Frame("modhook", Top.app, Top.ev, Top.obj, 0, "run", Top.c, <<>>, FALSE))
           ELSE IF Top.app \in Apps /\ Top.obj \in Classes \cup Objs
           THEN CallFrom("set", Frame("add", Top.app, None, Top.obj, 0, "test", Top.c, <<>>, FALSE))
           ELSE stack' = [stack EXCEPT ![Len(stack)].pc = "set"]
        /\ UNCHANGED <<alloc, created, log, last, regVars, mods, modIds>>
     \/ /\ Top.pc = "set"
        /\ mods' = MapSet(mods, Top.ev, Top.obj)
        /\ modIds' = MapSet(modIds, Top.obj, Top.ev)
        /\ ReturnValue(<<Entry("used", Top.ev, Top.obj, Top.app, Top.c, None, None, None)>>, "reg")
        /\ UNCHANGED <<alloc, created, regVars>>
  /\ UNCHANGED <<retVals, options, autoStart, extList, ext, ws, inited, started, ready,
                 extApp, ops, nest, cntVars, snap, dataMaps, hooks, regApp, handles>>

\* mod.use(registration) or mod.call(registration, registration): code of
\* the module, which returns or throws
ModHookReturns ==
  /\ At("modhook", "run")
  /\ stack' = SubSeq(stack, 1, Len(stack) - 1)
  /\ log' = Append(log, Entry("modhook", Top.ev, Top.obj, Top.app, Top.c, None, None, None))
  /\ UNCHANGED <<retVals, appVars, regVars, objVars, last, ops, nest, cntVars, snap, modVars>>

ModHookThrows ==
  /\ At("modhook", "run")
  /\ nest < MaxNest
  /\ nest' = nest + 1
  /\ Throw("threw")
  /\ log' = Append(log, Entry("throw", Top.ev, Top.obj, Top.app, Top.c, None, None, None))
  /\ UNCHANGED <<options, autoStart, extList, ext, ws, inited, started, ready,
                 regVars, extApp, ops, cntVars, snap, retVals, modVars>>

\* the captured Application as use() reads it: reg.app instanceof App ? reg.app : null
Captured == IF regApp \in Apps THEN regApp ELSE NoApp

\* the ids the host names its modules with, one of them the id of NavExt
ModNames == {"m1", "nav"}
MaxModOps == 3

\* a for(mod) that enters the module in the Maps at once, under its name
HostFor_records(mod) ==
  /\ stack = <<>>
  /\ mod \in Apps => alloc[mod] = "built"
  /\ mod \in Objs => created[mod] = "yes"
  /\ HostCountsTo(MaxModOps)
  /\ last' = [fn |-> "for", app |-> None, item |-> mod, ev |-> None, items |-> <<>>, pre |-> None,
              out |-> IF isComplex(mod) THEN "returned" ELSE "TypeError",
              ret |-> IF isComplex(mod) THEN "registration" ELSE None]
  /\ regApp' = IF mod \in Apps THEN mod ELSE regApp
  /\ handles' = IF isComplex(mod) THEN handles \cup {mod} ELSE handles
  /\ log' = <<>>
  /\ mods' = IF isComplex(mod) THEN MapSet(mods, Name(mod), mod) ELSE mods
  /\ modIds' = IF isComplex(mod) THEN MapSet(modIds, mod, Name(mod)) ELSE modIds
  /\ UNCHANGED <<retVals, appVars, regVars, objVars, stack, nest, cntVars, snap, dataMaps, hooks>>

\* registry.for(mod): the Application is kept, a registration is returned
HostFor(mod) ==
  /\ stack = <<>>
  /\ mod \in Apps => alloc[mod] = "built"
  /\ mod \in Objs => created[mod] = "yes"
  /\ HostCountsTo(MaxModOps)
  /\ last' = [fn |-> "for", app |-> None, item |-> mod, ev |-> None, items |-> <<>>, pre |-> None,
              out |-> IF isComplex(mod) THEN "returned" ELSE "TypeError",
              ret |-> IF isComplex(mod) THEN "registration" ELSE None]
  /\ regApp' = IF mod \in Apps THEN mod ELSE regApp
  /\ handles' = IF isComplex(mod) THEN handles \cup {mod} ELSE handles
  /\ log' = <<>>
  /\ UNCHANGED <<retVals, appVars, regVars, objVars, stack, nest, cntVars, snap, dataMaps, hooks,
                 mods, modIds>>

\* registration.use(id), id None when it is left out
HostUse(mod, id) ==
  /\ mod \in handles
  /\ (mod \in Classes /\ regApp \in Apps) => Left(mod) >= 1
  /\ HostCountsTo(MaxModOps)
  /\ HostBegins("use", Captured, mod, id, <<>>)
  /\ stack' = <<Frame("use", Captured, id, mod, 0, "id", 1, <<>>, TRUE)>>
  /\ UNCHANGED <<retVals, appVars, regVars, objVars, cntVars, snap, modVars>>

\* registry.make(id, mod): this.for(mod).use(id)
HostMake(id, mod) ==
  /\ isComplex(mod)
  /\ mod \in Apps => alloc[mod] = "built"
  /\ mod \in Objs => created[mod] = "yes"
  /\ (mod \in Classes /\ regApp \in Apps) => Left(mod) >= 1
  /\ HostCountsTo(MaxModOps)
  /\ regApp' = IF mod \in Apps THEN mod ELSE regApp
  /\ handles' = handles
  /\ LET app == IF mod \in Apps THEN mod ELSE Captured IN
       /\ HostBegins("make", app, mod, id, <<>>)
       /\ stack' = <<Frame("use", app, id, mod, 0, "id", 1, <<>>, TRUE)>>
  /\ UNCHANGED <<retVals, appVars, regVars, objVars, cntVars, snap, dataMaps, hooks, mods, modIds>>

\* ------------------------------------------------------------ dataFor
\* the names the file of WebApp declares at its top: the requires and
\* what it takes out of core.types
Declared == {"CTX", "core", "WC", "WS", "makeObservable", "def", "F", "S", "B",
             "isObj", "DEFAULT_OPTIONS"}
\* the keys the host passes to dataFor: two strings and the Application
DataKeys == {"k1", "k2", "this"}

\* dataFor(key): const maps = this[SYM_DATA_MAPS]; then maps.get(key), or
\* a new Map that is stored under key.  The constructor keeps the Map of
\* Maps under CTX.DATA_MAPS; the name SYM_DATA_MAPS is declared nowhere,
\* and evaluating an undeclared name throws ReferenceError.
dataFor(a, key) ==
  IF "SYM_DATA_MAPS" \notin Declared
  THEN [out |-> "ReferenceError", ret |-> None, maps |-> dataMaps[a]]
  ELSE IF key \in DOMAIN dataMaps[a]
  THEN [out |-> "returned", ret |-> dataMaps[a][key], maps |-> dataMaps[a]]
  ELSE LET newMap == <<a, Cardinality(DOMAIN dataMaps[a]) + 1>>
       IN [out |-> "returned", ret |-> newMap,
           maps |-> [k \in DOMAIN dataMaps[a] \cup {key} |->
                       IF k = key THEN newMap ELSE dataMaps[a][k]]]

\* app.dataFor(key)
HostDataFor(a, key) ==
  /\ alloc[a] = "built"
  /\ stack = <<>>
  /\ HostCountsTo(MaxIdReads)
  /\ last' = [fn |-> "dataFor", app |-> a, item |-> key, ev |-> None, items |-> <<>>,
              pre |-> IF key \in DOMAIN dataMaps[a] THEN "known" ELSE "new",
              out |-> dataFor(a, key).out, ret |-> dataFor(a, key).ret]
  /\ dataMaps' = [dataMaps EXCEPT ![a] = dataFor(a, key).maps]
  /\ log' = <<>>
  /\ UNCHANGED <<retVals, appVars, regVars, objVars, stack, nest, cntVars, snap, hooks, regyVars>>

\* ------------------------------------------------------- specifications
\* the steps of the library, whoever called it
Step ==
  \/ WebAppReady
  \/ init
  \/ start
  \/ triggerAll
  \/ triggerThisExt
  \/ triggerExtThis
  \/ triggerExt
  \/ trigger
  \/ HandlerReturns
  \/ WebExtension
  \/ setApp
  \/ add

\* what handlers may do besides returning
Reenter ==
  \/ HandlerThrows
  \/ \E fn \in {"start", "init"} : HandlerCalls(fn, None)
  \/ \E item \in Classes \cup Objs :
        /\ Unattached(item)
        /\ item \in Classes => Left(item) >= 1
        /\ HandlerCalls("add", item)

\* Spec: one Application, the whole API, handlers that call back or throw
Next ==
  \/ Step
  \/ Reenter
  \/ \E opts \in OptionSets : NewWebApp("A", opts)
  \/ \E fn \in {"start", "init"} : HostLifecycle(fn, "A")
  \/ \E fn \in {"triggerAll", "triggerThisExt", "triggerExtThis", "triggerExt"},
        ev \in HostEvents : HostTriggers(fn, "A", ev)
  \/ \E item \in Classes \cup Objs : HostAdds("A", item)
  \/ \E items \in Batches : HostAddsArray("A", items)
  \/ \E cls \in Classes : HostNewExtension(cls, NoApp)
  \/ whenReady("A")
  \/ \E how \in {"push", "pop", "reverse"} : HostEditsList("A", how, "n2")

Spec == Init /\ [][Next]_vars

\* SpecTwo: two Applications that pass extensions to one another; the
\* handlers do nothing but return
NextTwo ==
  \/ Step
  \/ \E a \in Apps, opts \in OptionSets : NewWebApp(a, opts)
  \/ \E a \in Apps, fn \in {"start", "init"} : HostLifecycle(fn, a)
  \/ \E a \in Apps, item \in Classes \cup Objs : HostAdds(a, item)
  \/ \E a \in Apps, items \in TwoBatches : HostAddsArray(a, items)

SpecTwo == Init /\ [][NextTwo]_vars

\* SpecCall: one Application, extCall and the dispatches, callbacks and
\* handlers that return or throw
NextCall ==
  \/ Step
  \/ extCall
  \/ \E v \in Values : CallbackReturns(v)
  \/ CallbackThrows
  \/ HandlerThrows
  \/ \E opts \in OptionSets : NewWebApp("A", opts)
  \/ \E item \in Classes : HostAdds("A", item)
  \/ \E items \in Batches : HostAddsArray("A", items)
  \/ \E fn \in {"triggerAll", "triggerThisExt", "triggerExtThis", "triggerExt"},
        ev \in HostEvents : HostTriggers(fn, "A", ev)
  \/ \E fn \in {"start", "init"} : HostLifecycle(fn, "A")
  \/ \E argv \in CallShapes : HostExtCall("A", argv)

SpecCall == Init /\ [][NextCall]_vars

\* SpecReady: one Application whose construction may change
\* state.autoStart, the ready signal of the host, start() and init() by
\* the host; handlers return.  A method that has begun runs to its end.
NextReady ==
  \/ Step
  \/ \E v \in BOOLEAN : InitSetsAutoStart(v)
  \/ \E opts \in OptionSets : NewWebApp("A", opts)
  \/ \E fn \in {"start", "init"} : HostLifecycle(fn, "A")
  \/ \E item \in Classes : HostAdds("A", item)
  \/ whenReady("A")

SpecReady == Init /\ [][NextReady]_vars /\ WF_vars(Step)

\* SpecAuto: the same, with handlers that register an extension, as an
\* `init` handler of the Application does during construction
NextAuto ==
  \/ NextReady
  \/ \E cls \in Classes : Left(cls) >= 1 /\ HandlerCalls("add", cls)

SpecAuto == Init /\ [][NextAuto]_vars /\ WF_vars(Step)

\* SpecLive: one Application, triggerExt and extCall, handlers and
\* callbacks that register an extension while the loop is running.  A
\* synchronous call that has begun runs on: the interpreter's steps are
\* weakly fair.
LiveShapes == {<<"f">>, <<"hello">>, <<"true", "f">>}
Run == Step \/ extCall \/ \E v \in Values : CallbackReturns(v)
NextLive ==
  \/ Run
  \/ \E cls \in Classes : Left(cls) >= 1 /\ HandlerCalls("add", cls)
  \/ \E cls \in Classes : Left(cls) >= 1 /\ CallbackCalls("add", cls)
  \/ \E opts \in OptionSets : NewWebApp("A", opts)
  \/ whenReady("A")
  \/ \E cls \in Classes : HostAdds("A", cls)
  \/ \E ev \in HostEvents : HostTriggers("triggerExt", "A", ev)
  \/ \E argv \in LiveShapes : HostExtCall("A", argv)

SpecLive == Init /\ [][NextLive]_vars /\ WF_vars(Run)

\* SpecOwner: two Applications and extensions made with and without an
\* app, whose `app` and `id` are read and whose `app` is assigned
NextOwner ==
  \/ Step
  \/ getApp
  \/ \E what \in {"app", "id"} : HandlerReads(what)
  \/ \E opts \in OptionSets : NewWebApp("A", opts)
  \/ NewWebApp("B", DefaultOptions)
  \/ HostLifecycle("start", "A")
  \/ \E cls \in Classes, app \in {"A", NoApp} : HostNewExtension(cls, app)
  \/ \E o \in Objs : HostAdds("A", o)
  \/ \E o \in Objs, what \in {"app", "id"} : HostReads(o, what)
  \/ \E o \in Objs, v \in Apps \cup NonApps : HostSetsApp(o, v)

SpecOwner == Init /\ [][NextOwner]_vars

\* SpecSink: one Application and a Map M that the host passes to extCall
\* again and again, with targets that can and that cannot be called
MaxSinkOps == 3
SinkShapes == { <<"M", "f", "x">>, <<"{rv:M}", "f", "x">>, <<"{rv:M,fn:f}", "x">>,
                <<"M", "hello", "x">>, <<"M">>, <<"M", "7", "x">>, <<"{rv:M}">>,
                <<"{rv:M,fn:7}">>, <<"7">>, <<>>, <<"{}">>, <<"true">>,
                <<"M", "f">>, <<"{rv:M}", "f">>, <<"{rv:M,fn:f}">>,
                <<"M", "f", "f">>, <<"{rv:M}", "f", "f">>, <<"{rv:M,fn:f}", "f">> }
NextSink ==
  \/ Step
  \/ extCall
  \/ \E v \in Values : CallbackReturns(v)
  \/ CallbackThrows
  \/ \E opts \in OptionSets : NewWebApp("A", opts)
  \/ whenReady("A")
  \/ \E item \in Classes : HostAddsTo(MaxSinkOps, "A", item)
  \/ \E argv \in SinkShapes : HostExtCallTo(MaxSinkOps, "A", argv)

SpecSink == Init /\ [][NextSink]_vars

\* SpecArgs: one Application whose init and start the host calls with
\* and without arguments
MaxArgOps == 3
NextArgs ==
  \/ Step
  \/ Reenter
  \/ \E opts \in OptionSets : NewWebApp("A", opts)
  \/ \E cls \in Classes : HostAddsTo(MaxArgOps, "A", cls)
  \/ \E fn \in {"start", "init"} : HostLifecycleTo(MaxArgOps, fn, "A")
  \/ \E fn \in {"start", "init"}, args \in ArgLists : HostLifecycleWith(MaxArgOps, fn, "A", args)

SpecArgs == Init /\ [][NextArgs]_vars

\* SpecThrow: one Application whose handlers call start() or init() back
\* and then throw, or throw at once
MaxThrowNest == 2
NextThrow ==
  \/ Step
  \/ HandlerThrowsAt(MaxThrowNest)
  \/ \E fn \in {"start", "init"} : HandlerCalls(fn, None)
  \/ \E opts \in OptionSets : NewWebApp("A", opts)
  \/ whenReady("A")
  \/ \E cls \in Classes : HostAddsTo(MaxArgOps, "A", cls)
  \/ \E fn \in {"start", "init"} : HostLifecycleTo(MaxArgOps, fn, "A")

SpecThrow == Init /\ [][NextThrow]_vars

\* SpecIds: two Applications built with the default options and five
\* instances made with new cls(); the host asks the registries for ids
InitIds ==
  /\ alloc = [a \in Apps |-> "built"]
  /\ options = [a \in Apps |-> DefaultOptions]
  /\ autoStart = [a \in Apps |-> TRUE]
  /\ extList = [a \in Apps |-> <<>>]
  /\ ext = [a \in Apps |-> EmptyMap]
  /\ ws = [a \in Apps |-> EmptyMap]
  /\ inited = [a \in Apps |-> TRUE]
  /\ started = [a \in Apps |-> FALSE]
  /\ ready = [a \in Apps |-> TRUE]
  /\ regCount = [a \in Apps |-> [b \in Bases |-> 0]]
  /\ regIds = [a \in Apps |-> [o \in Objs |-> ""]]
  /\ created = [o \in Objs |-> "yes"]
  /\ extApp = [o \in Objs |-> NoApp]
  /\ stack = <<>>
  /\ log = <<>>
  /\ last = NoCall
  /\ ops = 0
  /\ nest = 0
  /\ nStart = [a \in Apps |-> 0]
  /\ nInit = [a \in Apps |-> 1]
  /\ added = [a \in Apps |-> {}]
  /\ snap = [ref |-> None, copy |-> <<>>, of |-> None, live |-> <<>>]
  /\ retVals = NoMaps
  /\ dataMaps = [a \in Apps |-> EmptyMap]
  /\ hooks = [o \in Objs |-> <<>>]
  /\ mods = EmptyMap
  /\ modIds = EmptyMap
  /\ regApp = None
  /\ handles = {}

NextIds == \E a \in Apps, o \in Objs : HostReadsId(a, o)

SpecIds == InitIds /\ [][NextIds]_vars

\* SpecData: the same two Applications; the host asks them for ids and
\* for the Map of a key
NextData ==
  \/ \E a \in Apps, o \in Objs : HostReadsId(a, o)
  \/ \E a \in Apps, key \in DataKeys : HostDataFor(a, key)

SpecData == InitIds /\ [][NextData]_vars

\* SpecHook: instances made with new cls(), on which the host sets up
\* hooks and triggers events
NextHook ==
  \/ trigger
  \/ HandlerReturns
  \/ HandlerThrows
  \/ \E o \in {"p1", "n1"}, argv \in HookShapes : HostSetupHook(o, argv)
  \/ \E o \in {"p1", "n1"}, ev \in {"x", "hello"}, args \in {<<>>, <<"u">>} : HostTriggersOn(o, ev, args)

SpecHook == InitIds /\ [][NextHook]_vars

\* SpecMod: one Application and a module registry; the host makes
\* extensions and registers modules of every kind, with and without an id
NextMod ==
  \/ Step
  \/ use
  \/ ModHookReturns
  \/ ModHookThrows
  \/ \E opts \in OptionSets : NewWebApp("A", opts)
  \/ whenReady("A")
  \/ \E cls \in Classes, app \in {"A", NoApp} : HostNewExtensionTo(MaxModOps, cls, app)
  \/ \E mod \in Modules \cup {"7"} : HostFor(mod)
  \/ \E mod \in Modules, id \in ModNames \cup {None} : HostUse(mod, id)
  \/ \E mod \in Modules, id \in ModNames \cup {None} : HostMake(id, mod)

SpecMod == Init /\ [][NextMod]_vars

\* SpecMove: two Applications, one with the default options; instances
\* made with and without an app are given to them, before and after start()
NextMove ==
  \/ Step
  \/ \E opts \in OptionSets : NewWebApp("A", opts)
  \/ NewWebApp("B", DefaultOptions)
  \/ \E a \in Apps : HostLifecycleTo(MaxMoves, "start", a)
  \/ \E app \in Apps \cup {NoApp} : HostNewExtensionTo(MaxMoves, "PageExt", app)
  \/ \E a \in Apps, o \in Objs : HostAddsTo(MaxMoves, a, o)

SpecMove == Init /\ [][NextMove]_vars

\* SpecShare: two Applications that are given extension classes and each
\* other's extensions, and are started
NextShare ==
  \/ Step
  \/ \E opts \in OptionSets : NewWebApp("A", opts)
  \/ NewWebApp("B", DefaultOptions)
  \/ \E a \in Apps : HostLifecycleTo(MaxMoves, "start", a)
  \/ \E a \in Apps, item \in Classes \cup Objs : HostAddsTo(MaxMoves, a, item)

SpecShare == Init /\ [][NextShare]_vars

\* SpecWs: one Application that is given extension classes, webservices,
\* builders, ids and values of no accepted kind
NextWs ==
  \/ Step
  \/ Builder_build
  \/ \E opts \in OptionSets : NewWebApp("A", opts)
  \/ \E fn \in {"start", "init"} : HostLifecycle(fn, "A")
  \/ \E item \in Classes : HostAdds("A", item)
  \/ \E item \in SvcIds \cup Services \cup Builders \cup BuiltServices \cup Invalid :
        HostAddsService("A", item)
  \/ \E items \in WsBatches : HostAddsArray("A", items)
  \/ \E b \in WiredBuilders : HostBuilds(b)

SpecWs == Init /\ [][NextWs]_vars

\* ------------------------------------------------------ reading the log
IsPrefix(s, t) == Len(s) <= Len(t) /\ SubSeq(t, 1, Len(s)) = s
Range(s) == {s[k] : k \in DOMAIN s}
Count(s, x) == Cardinality({k \in DOMAIN s : s[k] = x})

\* the deliveries call c made, their targets and their events, in order
Deliveries(c) == SelectSeq(log, LAMBDA e : e.t = "trigger" /\ e.c = c)
Targets(c) == [k \in 1..Len(Deliveries(c)) |-> Deliveries(c)[k].tgt]
EventsOf(c) == {Deliveries(c)[k].ev : k \in 1..Len(Deliveries(c))}

\* ================================================================== C1
ThisExtOrder(a) == <<a>> \o extList[a]

\* where in the log the host's call delivered to the Application itself
AppDelivered(a) ==
  {k \in DOMAIN log : log[k].t = "trigger" /\ log[k].c = 1 /\ log[k].tgt = a}
\* extensions registered by a handler of that delivery: the loop was over
Late(a) ==
  {log[j].tgt : j \in {i \in DOMAIN log : /\ log[i].t = "stored" /\ log[i].app = a
                                           /\ \E d \in AppDelivered(a) : d < i}}
ExtThisOrder(a) == SelectSeq(extList[a], LAMBDA o : o \notin Late(a)) \o <<a>>

\* C1: triggerThisExt(e) delivers e to the Application first and then to
\* the extensions in registration order; triggerExtThis(e) delivers e to
\* the extensions in registration order and only then to the Application.
\* While the call runs its deliveries are a prefix of that order; when it
\* has returned they are all of it, and every one of them is event e.
C1_DispatchOrder ==
  (last.fn \in {"triggerThisExt", "triggerExtThis"}) =>
    LET a == last.app IN
    /\ EventsOf(1) \subseteq {last.ev}
    /\ last.fn = "triggerThisExt" =>
         /\ IsPrefix(Targets(1), ThisExtOrder(a))
         /\ last.out = "returned" => Targets(1) = ThisExtOrder(a)
    /\ last.fn = "triggerExtThis" =>
         /\ IF AppDelivered(a) = {} THEN IsPrefix(Targets(1), extList[a])
                                    ELSE Targets(1) = ExtThisOrder(a)
         /\ last.out = "returned" => AppDelivered(a) # {}

\* a returned triggerThisExt over two or more extensions
C1_Witness ==
  /\ last.fn = "triggerThisExt" /\ last.out = "returned"
  /\ Len(extList[last.app]) >= 2
  /\ Len(Targets(1)) = 1 + Len(extList[last.app])

\* ================================================================== C2
\* C2: start() fires `start` exactly once over an Application's lifetime:
\* the first-time branch of start() is taken at most once.
C2_StartFiredOnce == \A a \in Apps : nStart[a] <= 1

StartLatch_State ==
  \A a \in Apps :
    /\ started[a] => nStart[a] >= 1
    /\ nest = 0 => nStart[a] <= 1
    /\ (last.fn \in {"start", "whenReady"} /\ last.app = a) =>
         /\ EventsOf(1) \subseteq {IF last.pre = "set" THEN "restart" ELSE "start"}
         /\ last.out = "returned" => (started[a] /\ a \in Range(Targets(1)))

StartLatch_Step ==
  \A a \in Apps :
    /\ started[a] => (started'[a] /\ nStart'[a] = nStart[a])
    /\ (~started[a] /\ started'[a]) =>
         (Running /\ Top.fn = "start" /\ Top.pc = "def" /\ Top.app = a)

\* What the code does: start() fires `start` when isStarted is false at
\* the call and `restart` when it is true.  isStarted turns true when a
\* start() that fired `start` returns, and never turns back; from then on
\* `start` is not fired again.  `start` is fired exactly once in a lifetime
\* when no handler calls back or throws.
StartLatch == []StartLatch_State /\ [][StartLatch_Step]_vars

\* a second start() has returned and fired `restart`
StartLatch_Witness ==
  /\ last.fn = "start" /\ last.pre = "set" /\ last.out = "returned"
  /\ EventsOf(1) = {"restart"}
  /\ nStart[last.app] = 1

\* ================================================================== C3
\* C3: init() fires `init` exactly once over an Application's lifetime:
\* the first-time branch of init() is taken at most once.
C3_InitFiredOnce == \A a \in Apps : nInit[a] <= 1

InitLatch_State ==
  \A a \in Apps :
    /\ inited[a] => nInit[a] >= 1
    /\ nest = 0 => nInit[a] <= 1
    /\ alloc[a] = "built" => inited[a]
    /\ (last.fn = "WebApp" /\ last.app = a) => EventsOf(1) \subseteq {"init"}
    /\ (last.fn = "init" /\ last.app = a) =>
         /\ last.pre = "set"
         /\ EventsOf(1) \subseteq {"reinit"}
         /\ last.out = "returned" => a \in Range(Targets(1))

InitLatch_Step ==
  \A a \in Apps : inited[a] => (inited'[a] /\ nInit'[a] = nInit[a])

\* What the code does: the call the constructor makes fires `init`, and
\* every init() made on the constructed Application fires `reinit`.
\* isInited turns true when an init() that fired `init` returns and never
\* turns back.  `init` is fired exactly once in a lifetime when no handler
\* of that first `init` calls init() back.
InitLatch == []InitLatch_State /\ [][InitLatch_Step]_vars

\* a later init() has returned and fired `reinit`
InitLatch_Witness ==
  /\ last.fn = "init" /\ last.out = "returned"
  /\ EventsOf(1) = {"reinit"}
  /\ nInit[last.app] = 1

\* ================================================================== C4
FirstEvent(fn) == IF fn = "init" THEN "init" ELSE "start"
AgainEvent(fn) == IF fn = "init" THEN "reinit" ELSE "restart"

\* the first-time branch of fn is firing its event on a
Dispatching(fn, a) ==
  \E k \in DOMAIN stack : stack[k].fn = fn /\ stack[k].pc = "def" /\ stack[k].app = a

\* the calls to start() and init() handlers made during the host's call
Reentries == {k \in DOMAIN log : log[k].t = "call" /\ log[k].ev \in {"start", "init"}}

\* the host's call is the first start(), or the constructor's init()
FirstDispatch(fn) ==
  IF fn = "init" THEN last.fn = "WebApp"
  ELSE last.fn \in {"start", "whenReady"} /\ last.pre = "unset"

\* an earlier reentrant call of the same method has returned
Returned(k) == \E j \in 1..(k - 1) : log[j].t = "return" /\ log[j].ev = log[k].ev

\* C4: the latches are set before the events are fired: a reentrant init()
\* or start() made by a handler while the first `init` or `start` is being
\* dispatched finds the latch set and fires `reinit` or `restart`, never
\* `init` or `start` a second time.
C4_ReentrySeesLatchSet ==
  \A k \in Reentries :
    FirstDispatch(log[k].ev) =>
      /\ log[k].pre = "set"
      /\ EventsOf(log[k].c) \subseteq {AgainEvent(log[k].ev)}

\* What the code does: the latches are set after the events are fired,
\* when the first-time branch returns.  While the one first `init` or
\* `start` dispatch runs the latch is unset; a reentrant init() or start()
\* made by a handler during it finds the latch unset, unless an earlier
\* reentrant call has returned, and a call that finds it unset fires `init`
\* or `start` again, one that finds it set `reinit` or `restart`.
LatchAfterDispatch ==
  /\ \A a \in Apps :
       /\ (nStart[a] = 1 /\ Dispatching("start", a)) => ~started[a]
       /\ (nInit[a] = 1 /\ Dispatching("init", a)) => ~inited[a]
  /\ \A k \in Reentries :
       /\ EventsOf(log[k].c) \subseteq
            {IF log[k].pre = "unset" THEN FirstEvent(log[k].ev) ELSE AgainEvent(log[k].ev)}
       /\ FirstDispatch(log[k].ev) =>
            log[k].pre = (IF Returned(k) THEN "set" ELSE "unset")

\* a handler of the first `start` called start(), and `start` fired again
LatchAfterDispatch_Witness ==
  \E k \in Reentries :
    /\ log[k].ev = "start" /\ log[k].hev = "start" /\ FirstDispatch("start")
    /\ log[k].pre = "unset"
    /\ "start" \in EventsOf(log[k].c)
    /\ nStart[log[k].app] = 2

\* ================================================================== C5
\* the add(cls) calls handlers of `start` made, and what they registered
StartAdds ==
  {k \in DOMAIN log : log[k].t = "call" /\ log[k].ev = "add" /\ log[k].hev = "start"
                        /\ log[k].tgt \in Classes}
StoredBy(k) == {log[j].tgt : j \in {i \in DOMAIN log : log[i].t = "stored" /\ log[i].c = log[k].c}}
Got(o, ev) == \E j \in DOMAIN log : log[j].t = "trigger" /\ log[j].tgt = o /\ log[j].ev = ev

\* C5: when a handler of `start` registers another extension with add()
\* during the first start(), then once that start() has returned the
\* extension is in the list and has had `init` and `start` fired on it.
C5_LateExtensionStarted ==
  (FirstDispatch("start") /\ last.out = "returned") =>
    \A k \in StartAdds : \A o \in StoredBy(k) :
      /\ o \in Range(extList[last.app])
      /\ Got(o, "init")
      /\ Got(o, "start")

\* What the code does: the extension is listed and had `init`; it had
\* `start` too when the handler was not the Application's own, or the
\* Application is served before its extensions.
LateExtensionListed ==
  (FirstDispatch("start") /\ last.out = "returned") =>
    \A k \in StartAdds : \A o \in StoredBy(k) :
      /\ o \in Range(extList[last.app])
      /\ Got(o, "init")
      /\ (log[k].htgt # last.app \/ ~options[last.app].allExtFirst) => Got(o, "start")

\* ================================================================== C6
\* C6: the list and the map of every Application are consistent in every
\* reachable state: each element of the list is in the map under its id,
\* each value of the map is in the list, and no object is listed twice.
C6_ListAndMapConsistent ==
  \A a \in Apps :
    /\ \A k \in DOMAIN extList[a] :
         /\ IdOf(extList[a][k]) \in DOMAIN ext[a]
         /\ ext[a][IdOf(extList[a][k])] = extList[a][k]
    /\ \A id \in DOMAIN ext[a] : ext[a][id] \in Range(extList[a])
    /\ \A o \in Objs : Count(extList[a], o) <= 1

\* What the code does: the map holds each listed extension under the id it
\* had when it was added, which is the id it has for as long as its app is
\* the Application that lists it.
ListAndMapConsistentAtHome ==
  \A a \in Apps :
    /\ \A k \in DOMAIN extList[a] :
         LET o == extList[a][k]
             id == IF OverridesId(ClassOf(o)) THEN OwnId(ClassOf(o)) ELSE regIds[a][o]
         IN /\ id \in DOMAIN ext[a]
            /\ ext[a][id] = o
            /\ extApp[o] = a => IdOf(o) = id
    /\ \A id \in DOMAIN ext[a] : ext[a][id] \in Range(extList[a])
    /\ \A o \in Objs : Count(extList[a], o) <= 1

\* an extension listed by one Application has another as its app
Rehomed ==
  \E a \in Apps : \E k \in DOMAIN extList[a] : extApp[extList[a][k]] # a

\* the id an extension has under Application a once a's registry named it
IdIn(a, o) == IF OverridesId(ClassOf(o)) THEN OwnId(ClassOf(o)) ELSE regIds[a][o]

\* C7 as the specification words it: when the add calls have completed,
\* the list is as long as the number of distinct objects added
C7_LengthIsObjects ==
  \A a \in Apps : stack = <<>> => Len(extList[a]) = Cardinality(added[a])

C7_State ==
  \A a \in Apps :
    /\ Len(extList[a]) = Cardinality({IdIn(a, o) : o \in added[a]})
    /\ Range(extList[a]) \subseteq added[a]
    /\ \A o \in Objs : Count(extList[a], o) <= 1

C7_Step ==
  \A a \in Apps :
    (Running /\ Top.fn = "add" /\ added'[a] = added[a]) =>
      (extList'[a] = extList[a] /\ ext'[a] = ext[a])

\* C7 (amended): the length of the list equals the number of distinct ids
\* of the extension objects added, not the number of objects: an object
\* whose id another object holds is not listed.  The list holds no object
\* twice, and adding an object again changes neither the list nor the map.
C7_LengthIsIds == []C7_State /\ [][C7_Step]_vars

\* add calls are over, and more objects were added than are listed
C7_Witness ==
  \E a \in Apps :
    /\ stack = <<>> /\ last.out = "returned"
    /\ Len(extList[a]) >= 1
    /\ Cardinality(added[a]) > Len(extList[a])

\* ================================================================== C8
\* what _addExt did in the host's call, in order
Outcomes == SelectSeq(log, LAMBDA e : e.t \in {"stored", "same", "error"} /\ e.c = 1)

C8_State ==
  /\ \A k \in DOMAIN log :
       log[k].t = "error" =>
         LET a == log[k].app
             o == log[k].tgt
         IN /\ o \notin Range(extList[a])
            /\ IdIn(a, o) \in DOMAIN ext[a]
            /\ ext[a][IdIn(a, o)] # o
            /\ ext[a][IdIn(a, o)] \in Range(extList[a])
  /\ last.out = "threw" => \E k \in DOMAIN log : log[k].t = "throw"
  /\ (last.fn = "add" /\ last.item = "array" /\ last.out = "returned") =>
       /\ Len(Outcomes) = Len(last.items)
       /\ \A k \in DOMAIN last.items :
            /\ last.items[k] \in Objs => Outcomes[k].tgt = last.items[k]
            /\ last.items[k] \in Classes => ClassOf(Outcomes[k].tgt) = last.items[k]
            /\ Outcomes[k].t # "error" =>
                 /\ Outcomes[k].tgt \in Range(extList[last.app])
                 /\ ext[last.app][Outcomes[k].ev] = Outcomes[k].tgt

C8_Step ==
  (\E k \in (Len(log) + 1)..Len(log') : log'[k].t \in {"same", "error"}) =>
    (extList' = extList /\ ext' = ext /\ last'.out # "threw")

\* C8: adding an extension object already registered under its id changes
\* nothing; adding a different object whose id is in use is reported and
\* not fatal: the first registrant stays in the map and in the list, the
\* newcomer is not stored, add does not throw, and the remaining items of
\* a batch are registered all the same.
C8_DuplicateIgnored == []C8_State /\ [][C8_Step]_vars

\* a batch has returned: one item was reported and a later one stored
C8_Witness ==
  /\ last.fn = "add" /\ last.item = "array" /\ last.out = "returned"
  /\ \E j, k \in DOMAIN Outcomes :
       j < k /\ Outcomes[j].t = "error" /\ Outcomes[k].t = "stored"

\* ================================================================== C9
\* the host's add(o) of an instance has returned
AddedInstance == last.fn = "add" /\ last.item \in Objs /\ last.out = "returned"
Reported(o) == \E k \in DOMAIN log : log[k].t = "error" /\ log[k].tgt = o /\ log[k].c = 1

\* C9 as the specification words it: after add(ext) the map holds ext under
\* ext.id and the snapshot holds ext exactly once
C9_RoundTrip ==
  AddedInstance =>
    LET o == last.item
        a == last.app
    IN /\ IdOf(o) \in DOMAIN ext[a]
       /\ ext[a][IdOf(o)] = o
       /\ Count(orderedExtensions(a).copy, o) = 1

\* C9 (amended): after add(ext) of an instance, also a repeated one, the
\* map holds ext under ext.id and the snapshot holds ext exactly once,
\* unless a different object held ext.id before: then add reported ext,
\* the map still holds the other object and the snapshot does not hold ext.
C9_RoundTripUnlessTaken ==
  AddedInstance =>
    LET o == last.item
        a == last.app
    IN /\ IdOf(o) \in DOMAIN ext[a]
       /\ IF Reported(o)
          THEN ext[a][IdOf(o)] # o /\ Count(orderedExtensions(a).copy, o) = 0
          ELSE ext[a][IdOf(o)] = o /\ Count(orderedExtensions(a).copy, o) = 1

\* a repeated add(ext) has returned
C9_Witness ==
  /\ AddedInstance
  /\ \E k \in DOMAIN log : log[k].t = "same" /\ log[k].tgt = last.item /\ log[k].c = 1
  /\ Count(orderedExtensions(last.app).copy, last.item) = 1

\* ================================================================= C10
\* C10: orderedExtensions returns a copy: after the host has appended to,
\* removed from or reordered the array it got, the live list is what it
\* was before and the edit is in the host's array only.
C10_SnapshotIsCopy ==
  last.fn = "orderedExtensions" =>
    /\ extList[last.app] = snap.live
    /\ SnapNow = Edited(snap.live, last.ev, last.item)

\* the host has edited the snapshot of a list that is not empty
C10_Witness ==
  /\ last.fn = "orderedExtensions"
  /\ extList[last.app] # <<>>
  /\ SnapNow # extList[last.app]

\* ================================================================= C11
C11_Step == \A a \in Apps : IsPrefix(extList[a], extList'[a])

ThisExtLaw(a) ==
  /\ IsPrefix(Targets(1), ThisExtOrder(a))
  /\ last.out = "returned" => Targets(1) = ThisExtOrder(a)
ExtThisLaw(a) ==
  /\ IF AppDelivered(a) = {} THEN IsPrefix(Targets(1), extList[a])
                             ELSE Targets(1) = ExtThisOrder(a)
  /\ last.out = "returned" => AppDelivered(a) # {}

\* the method triggerAll stands for under the Application's option
Delegate(a) == IF options[a].allExtFirst THEN "triggerExtThis" ELSE "triggerThisExt"

C12_State ==
  last.fn = "triggerAll" =>
    /\ EventsOf(1) \subseteq {last.ev}
    /\ IF options[last.app].allExtFirst THEN ExtThisLaw(last.app) ELSE ThisExtLaw(last.app)

\* triggerAll does nothing but become the activation a direct call makes
C12_Step ==
  At("triggerAll", "call") =>
    /\ stack' = [stack EXCEPT ![Len(stack)] =
                   Frame(Delegate(Top.app), Top.app, Top.ev, None, 0, "first",
                         Top.c, <<>>, Top.root)]
    /\ UNCHANGED <<retVals, appVars, regVars, objVars, log, cntVars, snap, modVars>>

Compound == {"triggerAll", "triggerThisExt", "triggerExtThis", "triggerExt", "extCall"}

\* the targets the host's call has invoked a handler or a callback on
Invoked ==
  LET made == SelectSeq(log, LAMBDA e : e.t \in {"trigger", "extcall"} /\ e.c = 1)
  IN [k \in 1..Len(made) |-> made[k].tgt]

\* the extensions extCall has something to call on
Callable(a) ==
  SelectSeq(extList[a], LAMBDA o : \/ typeOf(Resolve(last.items).fn) = "function"
                                   \/ HasMethod(ClassOf(o), Resolve(last.items).fn))

\* the order in which the host's call visits its targets
DispatchOrder ==
  LET a == last.app IN
  IF last.fn = "extCall" THEN Callable(a)
  ELSE IF last.fn = "triggerExt" THEN extList[a]
  ELSE IF last.fn = "triggerThisExt" \/ (last.fn = "triggerAll" /\ ~options[a].allExtFirst)
  THEN <<a>> \o extList[a]
  ELSE extList[a] \o <<a>>

Thrown == {k \in DOMAIN log : log[k].t = "throw"}

\* C13: an error thrown by a handler during triggerAll, triggerThisExt,
\* triggerExtThis or triggerExt, or by a callback during extCall, ends the
\* call: it is the last thing the call did, the host gets the error, no
\* activation is left to continue, and the targets invoked are those of
\* the dispatch order up to the one that threw; none after it is invoked.
C13_ThrowEndsDispatch ==
  last.fn \in Compound =>
    /\ \A k \in Thrown :
         /\ k = Len(log)
         /\ stack = <<>>
         /\ last.out = "threw"
         /\ Invoked # <<>> /\ Invoked[Len(Invoked)] = log[k].tgt
    /\ IsPrefix(Invoked, DispatchOrder)

\* the first callback of an extCall over two or more extensions threw
C13_Witness ==
  /\ last.fn = "extCall" /\ last.out = "threw"
  /\ Thrown # {}
  /\ Len(DispatchOrder) >= 2
  /\ Len(Invoked) < Len(DispatchOrder)

\* ================================================================= C14
\* what the running (or last) host call has registered
Registered == {k \in DOMAIN log : log[k].t \in {"stored", "service"}}

C14_State ==
  (last.fn = "add" /\ last.item \in Invalid) =>
    /\ last.out \in {"running", "TypeError"}
    /\ Registered = {}
C14_Step ==
  (At("add", "test") /\ Top.obj \in Invalid) =>
    /\ stack' = <<>>
    /\ last'.out = "TypeError"
    /\ UNCHANGED <<extList, ext, ws>>

\* C14: add(v) with a value of none of the accepted shapes, a function
\* that is not an Extension class included, throws TypeError and leaves
\* the extension list, `ext` and `ws` as they were.
C14_InvalidRejected == []C14_State /\ [][C14_Step]_vars

\* a function that is no Extension class was refused by an Application
\* that holds a webservice
C14_Witness ==
  /\ last.fn = "add" /\ last.item = "f" /\ last.out = "TypeError"
  /\ ws[last.app] # EmptyMap

\* ================================================================= C15
\* the first element of the array that add() has no branch for (0: none)
FirstInvalid(items) ==
  IF \E k \in DOMAIN items : items[k] \in Invalid
  THEN CHOOSE k \in DOMAIN items : items[k] \in Invalid /\ \A j \in 1..(k - 1) : items[j] \notin Invalid
  ELSE 0

\* the elements the host's add([...]) has dealt with, in order: one
\* entry for each extension given to _addExt and each webservice stored
Handled ==
  SelectSeq(log, LAMBDA e : \/ e.t \in {"stored", "same", "service"}
                            \/ e.t = "error" /\ e.ev = "Duplicate extension")

\* entry e is the registration of array element item, and it is in place
HandledAs(e, item) ==
  /\ item \in Classes => e.tgt \in Objs /\ ClassOf(e.tgt) = item
  /\ item \notin Classes => e.tgt = item
  /\ e.t = "stored" => e.tgt \in Range(extList[e.app]) /\ ext[e.app][e.ev] = e.tgt
  /\ e.t = "service" => e.ev \in DOMAIN ws[e.app] /\ ws[e.app][e.ev] = e.tgt

\* the instances the call has constructed
Constructed == {e.tgt : e \in {d \in Range(log) : d.t = "trigger" /\ d.ev = "init" /\ d.tgt \in Objs}}

\* C15: add([...]) with an invalid k-th element never returns normally;
\* when the TypeError has reached the host, exactly the k-1 elements
\* before it have been registered, in order, and are in place, and no
\* element after the k-th was attempted (nothing was constructed for it).
C15_ArrayStopsAtInvalid ==
  (last.fn = "add" /\ last.item = "array" /\ FirstInvalid(last.items) > 0) =>
    LET k == FirstInvalid(last.items) IN
    /\ last.out \in {"running", "TypeError"}
    /\ Len(Handled) <= k - 1
    /\ \A j \in DOMAIN Handled : HandledAs(Handled[j], last.items[j])
    /\ last.out = "TypeError" =>
         /\ Len(Handled) = k - 1
         /\ Cardinality(Constructed) =
              Cardinality({j \in 1..(k - 1) : last.items[j] \in Classes})

\* the second of three elements was refused: one registered, one never tried
C15_Witness ==
  /\ last.fn = "add" /\ last.item = "array" /\ last.out = "TypeError"
  /\ FirstInvalid(last.items) = 2 /\ Len(last.items) = 3
  /\ Len(Handled) = 1

\* ================================================================= C16
C16_State ==
  /\ (last.fn = "add" /\ last.out = "returned") =>
       IF last.item \in SvcIds
       THEN /\ last.ret \in WiredBuilders
            /\ BuilderId(last.ret) = last.item
            /\ WiredTo(last.ret) = last.app
       ELSE last.ret = last.app
  /\ (last.fn = "build" /\ last.out = "returned" /\ last.app \in Apps) =>
       /\ last.ret = build(last.item)
       /\ BuilderId(last.item) \in DOMAIN ws[last.app]
       /\ ws[last.app][BuilderId(last.item)] = last.ret
C16_Step ==
  (At("add", "test") /\ Top.obj \in SvcIds) => UNCHANGED <<ws, ext, extList>>

\* C16: add(x) returns the Application for every accepted x but an id
\* string; add(id) returns a new builder for that id, wired to this
\* Application, and leaves `ws` as it was; when build() of that builder
\* has returned, the service it built is in `ws` under its id.
C16_AddReturns == []C16_State /\ [][C16_Step]_vars

\* the builder that add("api") returned has been built
C16_Witness ==
  /\ last.fn = "build" /\ last.out = "returned"
  /\ last.item = _buildWebservice("A", "api")
  /\ ws["A"] = ("api" :> build(last.item))

\* ================================================================= C17
\* the this.ws assignments the host's call has made
Stores == SelectSeq(log, LAMBDA e : e.t = "service")

C17_State ==
  (last.fn = "add" /\ last.item \in WiredBuilders /\ last.out = "returned") =>
    LET id == BuilderId(last.item)
        a  == last.app
    IN /\ WiredTo(last.item) = a
       /\ Len(Stores) = 2
       /\ \A k \in DOMAIN Stores : Stores[k].tgt = build(last.item) /\ Stores[k].ev = id
       /\ id \in DOMAIN ws[a] /\ ws[a][id] = build(last.item)
\* a step of add(builder), of the build() it calls and of the add(ws)
\* that build() calls changes this.ws at the id of the builder only
C17_Step ==
  (Running /\ Top.fn \in {"add", "build"} /\ Top.obj \in Builders \cup BuiltServices) =>
    LET id == IF Top.obj \in Builders THEN BuilderId(Top.obj) ELSE _id(Top.obj) IN
    /\ UNCHANGED <<ext, extList>>
    /\ \A a \in Apps :
         /\ DOMAIN ws[a] \subseteq DOMAIN ws'[a]
         /\ DOMAIN ws'[a] \subseteq DOMAIN ws[a] \cup {id}
         /\ \A k \in DOMAIN ws[a] \ {id} : ws'[a][k] = ws[a][k]

\* C17: add(builder) of a builder that add(id) made: build() calls
\* add(instance) through the `build` signal and add(builder) then stores
\* the instance again; `ws` ends with the one entry for that id, holding
\* the built instance, and no other `ws` entry and no extension changes.
C17_ReentrantStoreIdempotent == []C17_State /\ [][C17_Step]_vars

\* add(builder) has returned in an Application that held another service
C17_Witness ==
  /\ last.fn = "add" /\ last.item = _buildWebservice("A", "api") /\ last.out = "returned"
  /\ ws["A"] = ("api" :> build(last.item)) @@ ("db" :> "dbSvc")

\* ================================================================= C18
\* the method on top calls f: f is the new top, over the old activations
Calls(f) ==
  /\ Len(stack') = Len(stack) + 1
  /\ stack'[Len(stack')] = f
\* the events the log holds for o
Received(l, o) == SelectSeq(l, LAMBDA e : e.t = "trigger" /\ e.tgt = o)

C18_Step ==
  /\ (At("add", "test") /\ Top.obj \in Objs /\ extApp[Top.obj] # Top.app) =>
       Calls(Frame("setApp", Top.app, None, Top.obj, 0, "test", Top.c, <<>>, FALSE))
  /\ (At("add", "test") /\ Top.obj \in Objs /\ extApp[Top.obj] = Top.app) =>
       /\ Len(stack') < Len(stack)
       /\ extApp' = extApp
       /\ Received(log', Top.obj) = Received(log, Top.obj)
  /\ (At("setApp", "test") /\ Top.app \in Apps /\ started[Top.app]) =>
       /\ Calls(Frame("trigger", Top.app, IF extApp[Top.obj] = NoApp THEN "start" ELSE "restart",
                      Top.obj, 0, "fire", Top.c, <<>>, FALSE))
       /\ stack'[Len(stack)].pc = "def"
  /\ (At("setApp", "test") /\ Top.app \in Apps /\ ~started[Top.app]) =>
       /\ Len(stack') < Len(stack)
       /\ extApp'[Top.obj] = Top.app
       /\ Received(log', Top.obj) = Received(log, Top.obj)
  /\ At("setApp", "def") =>
       /\ Len(stack') < Len(stack)
       /\ extApp'[Top.obj] = Top.app
C18_State ==
  (last.fn = "add" /\ last.item \in Objs /\ last.out = "returned") =>
    /\ extApp[last.item] = last.app
    /\ Len(Deliveries(1)) <= 1
    /\ Targets(1) \in {<<>>, <<last.item>>}
    /\ EventsOf(1) \subseteq {"start", "restart"}
    /\ Deliveries(1) # <<>> => started[last.app]

Computed(o) ==
  /\ extApp[o] \in Apps
  /\ OverridesId(ClassOf(o)) \/ regIds[extApp[o]][o] # ""

C19_Step ==
  \A o \in Objs : (Computed(o) /\ extApp'[o] \in Apps) => IdOf(o)' = IdOf(o)

\* C19: the id of an extension, once computed, never changes, also not
\* when its app becomes another Application whose registry has already
\* handed out the same base name.
C19_IdNeverChanges == [][C19_Step]_vars

\* the same while the extension stays with its Application
C19_StableAtHome ==
  [][\A o \in Objs : (Computed(o) /\ extApp'[o] = extApp[o]) => IdOf(o)' = IdOf(o)]_vars

\* ================================================================= C20
\* the name of the n-th object of a base name
Numbered(base, n) == IF n = 1 THEN base ELSE base \o ToString(n)
\* the objects of a base name that the registry of a has named
Named(a, base) == {o \in Objs : className(ClassOf(o)) = base /\ regIds[a][o] # ""}

C20_State ==
  \A a \in Apps, base \in Bases :
    /\ {regIds[a][o] : o \in Named(a, base)} =
         {Numbered(base, n) : n \in 1..Cardinality(Named(a, base))}
    /\ \A o1, o2 \in Named(a, base) : regIds[a][o1] = regIds[a][o2] => o1 = o2
C20_Step ==
  \A a \in Apps, o \in Objs :
    (ops' = ops + 1 /\ last'.fn = "id" /\ last'.app = a /\ last'.item = o) =>
      IF regIds[a][o] # ""
      THEN last'.ret = regIds[a][o] /\ regIds' = regIds
      ELSE /\ last'.ret = Numbered(className(ClassOf(o)),
                                   Cardinality(Named(a, className(ClassOf(o)))) + 1)
           /\ regIds'[a][o] = last'.ret

\* C20: the registry names the n-th distinct object of a base name with
\* the base name followed by n, and with the bare base name when n = 1:
\* three objects of base "page" are page, page2 and page3; asking again
\* for an object returns the id it was first given and names nothing.
C20_RegistryNumbers == []C20_State /\ [][C20_Step]_vars

\* three PageExt objects are named page, page2, page3, and the last
\* request was for one the registry already knew
C20_Witness ==
  /\ last.fn = "id" /\ last.pre = "known"
  /\ {regIds[last.app][o] : o \in {"p1", "p2", "p3"}} = {"page", "page2", "page3"}
  /\ last.ret = regIds[last.app][last.item]

\* ================================================================= C22
\* the reads of this.app and this.id that handlers of `init` have made
InitReads == {k \in DOMAIN log : log[k].t = "read" /\ log[k].hev = "init"}

C22_State ==
  /\ \A k \in InitReads :
       IF k = Len(log) THEN At("get", "test") /\ extApp[Top.obj] = NoApp
       ELSE log[k + 1].t = "throw" /\ last.out = "RangeError" /\ stack = <<>>
  /\ (last.fn = "get" /\ last.app \notin Apps) => last.out \in {"running", "RangeError"}
  /\ (last.fn = "set" /\ last.app \notin Apps) =>
       /\ last.out \in {"running", "TypeError"}
       /\ Deliveries(1) = <<>>
C22_Step ==
  /\ (At("get", "test") /\ extApp[Top.obj] \notin Apps) =>
       /\ stack' = <<>>
       /\ last'.out = "RangeError"
       /\ UNCHANGED <<extList, ext, ws, inited, started, regVars, extApp, options, autoStart>>
  /\ (At("setApp", "test") /\ Top.ev = "validate" /\ Top.app \notin Apps) =>
       /\ stack' = <<>>
       /\ last'.out = "TypeError"
       /\ UNCHANGED <<extList, ext, ws, inited, started, regVars, extApp, options, autoStart>>

\* C22: reading `app` or `id` of an extension that has no Application
\* ends in a RangeError and changes nothing; a read made by the `init`
\* handler always does, because the constructor triggers `init` before
\* it records the app it was given.  Assigning a value that is no
\* Application to `app` ends in a TypeError, no event is sent and the
\* app set before stays.
C22_NoOwnerNoRead == []C22_State /\ [][C22_Step]_vars

\* new cls(app): the init handler read this.id and the constructor failed
C22_Witness ==
  /\ last.fn = "Extension" /\ last.app \in Apps /\ last.out = "RangeError"
  /\ InitReads # {}
  /\ created[last.item] = "failed"

\* ================================================================= C23
C23_State ==
  /\ \A a \in Apps : (alloc[a] = "built" /\ ~autoStart[a]) => ~ready[a]
  /\ last.fn = "whenReady" => autoStart[last.app]
  /\ (last.fn = "whenReady" /\ last.out = "returned") => started[last.app]
C23_Step ==
  /\ At("WebApp", "ready") => ready'[Top.app] = autoStart[Top.app] /\ stack' = <<>>
  /\ \A a \in Apps :
       /\ (~ready[a] /\ ready'[a]) => At("WebApp", "ready") /\ Top.app = a
       /\ (ready[a] /\ ~ready'[a]) =>
            /\ last'.fn = "whenReady" /\ last'.app = a
            /\ stack' = <<Frame("start", a, None, None, 0, "test", 1, <<>>, TRUE)>>
       /\ (~started[a] /\ started'[a]) => last.fn \in {"start", "whenReady"}
       /\ (nStart'[a] # nStart[a]) => last.fn \in {"start", "whenReady"}

\* C23: the constructor registers the ready callback exactly when
\* state.autoStart is true at its end, after init has run; nothing else
\* registers it; when the host signals readiness the callback runs
\* start() and is gone, and that start() leaves the Application started;
\* start() runs only in a call the host made or in the ready callback.
C23_AutoStart ==
  /\ []C23_State
  /\ [][C23_Step]_vars
  /\ ((last.fn = "whenReady" /\ last.out = "running") ~> started["A"])

\* the option was off, init turned state.autoStart on, readiness came
C23_Witness ==
  /\ last.fn = "whenReady" /\ last.out = "returned" /\ started[last.app]
  /\ ~options[last.app].autoStart

\* ================================================================= C24
C24_Step ==
  \A a \in Apps :
    /\ inited[a] => inited'[a]
    /\ started[a] => started'[a]

\* C24: `inited` and `started` never go back from true to false, so each
\* goes from false to true at most once, whatever init, start, add and
\* dispatch calls the host and the handlers make, reentrant ones included.
C24_LatchesMonotonic == [][C24_Step]_vars

\* a handler of the first `start` called start() again: both calls took
\* the first-time branch, both set the latch, and it is set
C24_Witness ==
  /\ last.fn \in {"start", "whenReady"} /\ last.out = "returned"
  /\ nStart[last.app] = 2
  /\ started[last.app] /\ inited[last.app]

\* ------------------------------------------------------------- C25
\* the arguments call c was made with: the host's call is number 1, the
\* calls handlers make pass none
ArgsOf(c) == IF c = 1 THEN last.items ELSE <<>>
ReinitTargets == {log[k].tgt : k \in {j \in DOMAIN log : log[j].t = "trigger" /\ log[j].ev = "reinit" /\ log[j].c = 1}}
NoneStored == \A k \in DOMAIN log : log[k].t # "stored"

\* C25: every `reinit` delivery of a repeated init(args) carries exactly
\* the arguments of that call, to the Application and to each of its
\* extensions; every `start` and `restart` delivery carries no argument,
\* whatever start was called with.
C25_ArgumentsForwarded ==
  /\ \A k \in DOMAIN log :
        log[k].t = "trigger" =>
          /\ log[k].ev = "reinit" => log[k].args = ArgsOf(log[k].c)
          /\ log[k].ev \in {"start", "restart"} => log[k].args = <<>>
  /\ (last.fn = "init" /\ last.pre = "set" /\ last.out = "returned" /\ NoneStored) =>
        ReinitTargets = {last.app} \cup Range(extList[last.app])

C25_Witness ==
  /\ last.fn = "init" /\ last.pre = "set" /\ last.out = "returned"
  /\ last.items = <<"x", "y">>
  /\ Len(extList[last.app]) = 2
  /\ Len(Deliveries(1)) = 3
  /\ \A k \in 1..3 : Deliveries(1)[k].ev = "reinit" /\ Deliveries(1)[k].args = <<"x", "y">>

\* ------------------------------------------------------------- C26
\* the calls the host's extCall has made, in the order it made them
ExtCalls == SelectSeq(log, LAMBDA e : e.t = "extcall" /\ e.c = 1)
ByName == last.fn = "extCall" /\ typeOf(Resolve(last.items).fn) = "string"
Lacking(a) == {o \in Range(extList[a]) : ~HasMethod(ClassOf(o), Resolve(last.items).fn)}

\* C26: extCall with a method name calls the method, with the arguments
\* given, on the extensions that define it and on no other, in the order
\* of registration; an extension without the method raises no error, and
\* a collecting Map gets undefined for each such extension.
C26_MethodByName ==
  ByName =>
    LET a == last.app
        r == Resolve(last.items)
    IN /\ IsPrefix(Invoked, Callable(a))
       /\ \A k \in DOMAIN ExtCalls : ExtCalls[k].args = r.args /\ ExtCalls[k].ev = r.fn
       /\ last.out = "threw" => Thrown # {}
       /\ last.out = "returned" =>
            /\ Invoked = Callable(a)
            /\ r.retVals # None =>
                 \A o \in Lacking(a) :
                   o \in DOMAIN retVals[r.retVals] /\ retVals[r.retVals][o] = "undefined"

\* hello("x") collected in M over a PageExt and a NavExt
C26_Witness ==
  /\ ByName /\ last.out = "returned"
  /\ last.items = <<"M", "hello", "x">>
  /\ Lacking(last.app) # {}
  /\ Len(ExtCalls) >= 1 /\ ExtCalls[1].args = <<"x">>

\* ------------------------------------------------------------- C27
NewMapCall == last.fn = "extCall" /\ last.items = <<"{rv:true,fn:f}", "x">>
\* what the callback returned for o in the host's call
Results(o) == {log[k].ev : k \in {j \in DOMAIN log : log[j].t = "result" /\ log[j].tgt = o /\ log[j].c = 1}}

C27_State ==
  (NewMapCall /\ last.out = "returned") =>
    /\ last.ret = "new"
    /\ DOMAIN retVals.new = Range(extList[last.app])
    /\ \A o \in Range(extList[last.app]) : Results(o) = {retVals.new[o]}
    /\ Invoked = extList[last.app]
    /\ \A k \in DOMAIN ExtCalls : ExtCalls[k].ev = "f" /\ ExtCalls[k].args = <<"x">>

C27_Step == NewMapCall' => UNCHANGED <<extList, ext, ws>> /\ retVals'.M = retVals.M

\* C27: extCall({rv:true, fn:f}, x) returns a Map made by the call: its
\* keys are the registered extensions, the value of each extension e is
\* what f(e, x) returned, and from the call to its return the list of
\* extensions, `ext` and `ws` stay as they were.
C27_NewMapOfResults == []C27_State /\ [][C27_Step]_vars

\* two extensions, two different results
C27_Witness ==
  /\ NewMapCall /\ last.out = "returned" /\ last.ret = "new"
  /\ Len(extList[last.app]) = 2
  /\ retVals.new[extList[last.app][1]] = "u"
  /\ retVals.new[extList[last.app][2]] = "v"

\* ------------------------------------------------------------- C28
ExtCallReturned == last.fn = "extCall" /\ last.out = "returned"

\* the statement as written: whenever there is a collecting Map, the
\* host's own or a new one, extCall returns it
C28_SinkReturned ==
  ExtCallReturned =>
    last.ret = IF Resolve(last.items).retVals # None
               THEN Resolve(last.items).retVals ELSE last.app

\* C28: extCall returns the Application, also when the host supplied the
\* Map that collects the results; only when a new Map was asked for with
\* rv true is that Map returned instead of the Application.
C28_ReturnsThisOrNewMap ==
  ExtCallReturned =>
    last.ret = IF Resolve(last.items).retMap THEN "new" ELSE last.app

\* the host's Map was filled and the Application returned
C28_Witness ==
  /\ ExtCallReturned
  /\ Resolve(last.items).retVals = "M"
  /\ DOMAIN retVals.M # {}
  /\ last.ret = last.app

\* ------------------------------------------------------------- C29
\* the target the host's extCall resolves to can not be called
BadTarget ==
  /\ last.fn = "extCall"
  /\ typeOf(Resolve(last.items).fn) \notin {"function", "string"}

C29_State ==
  BadTarget =>
    /\ last.out \in {"running", "TypeError"}
    /\ last.out = "running" => At("extCall", "opts")
    /\ last.out = "TypeError" => stack = <<>>
    /\ \A k \in DOMAIN log : log[k].t \notin {"extcall", "result"}

C29_Step == BadTarget' => retVals'.M = retVals.M

\* C29: when what extCall resolves as its target is neither a function
\* nor a string, also when nothing is left after the Map or the options,
\* the call ends with a TypeError and nothing else: no extension is
\* visited, no callback runs, and the Map the host supplied keeps its
\* contents.
C29_BadTargetThrows == []C29_State /\ [][C29_Step]_vars

\* a filled Map, a list of extensions, and a call with no target after M
C29_Witness ==
  /\ BadTarget /\ last.out = "TypeError"
  /\ Resolve(last.items).retVals = "M"
  /\ Resolve(last.items).fn = "undefined"
  /\ extList[last.app] # <<>>
  /\ DOMAIN retVals.M = Range(extList[last.app])

\* ------------------------------------------------------------- C30
\* the arguments the three shapes are compared on: none, a string, and a
\* function, which must not be taken for the target
EquivArgs == {<<>>, <<"x">>, <<"f">>}
\* extCall(M, f, ...a), extCall({rv:M}, f, ...a), extCall({rv:M, fn:f}, ...a)
Shapes(a) == {<<"M", "f">> \o a, <<"{rv:M}", "f">> \o a, <<"{rv:M,fn:f}">> \o a}
ShapeOf(a) == last.fn = "extCall" /\ last.items \in Shapes(a)
\* the extensions whose callback has returned in the host's call
Answered == {log[k].tgt : k \in {j \in DOMAIN log : log[j].t = "result" /\ log[j].c = 1}}

C30_State ==
  \A a \in EquivArgs :
    ShapeOf(a) =>
      /\ IsPrefix(Invoked, extList[last.app])
      /\ \A k \in DOMAIN ExtCalls : ExtCalls[k].ev = "f" /\ ExtCalls[k].args = a
      /\ \A o \in Answered : o \in DOMAIN retVals.M /\ Results(o) = {retVals.M[o]}
      /\ Len(last.items) - Len(a) = IF fnOf(last.items[1]) = "f" THEN 1 ELSE 2
      /\ last.out = "returned" =>
           /\ Invoked = extList[last.app]
           /\ Answered = Range(extList[last.app])
           /\ last.ret = last.app

C30_Step ==
  (\E a \in EquivArgs : ShapeOf(a)') =>
    /\ DOMAIN retVals.M \subseteq DOMAIN retVals'.M
    /\ \A o \in DOMAIN retVals'.M :
         (o \notin DOMAIN retVals.M \/ retVals'.M[o] # retVals.M[o]) =>
           /\ Len(log') = Len(log) + 1
           /\ log'[Len(log')].t = "result" /\ log'[Len(log')].tgt = o
           /\ log'[Len(log')].ev = retVals'.M[o]

\* C30: extCall(M, f, a), extCall({rv:M}, f, a) and extCall({rv:M, fn:f}, a)
\* do the same: each calls f(e, a) for the extensions e in list order,
\* writes into M what each call returned and nothing else, and returns
\* the Application; with fn in the options only the options are taken
\* from the arguments, without it the options and one target.
C30_ShapesEquivalent == []C30_State /\ [][C30_Step]_vars

\* the options name f and the one argument is a function too
C30_Witness ==
  /\ last.fn = "extCall" /\ last.items = <<"{rv:M,fn:f}", "f">>
  /\ last.out = "returned"
  /\ Len(extList[last.app]) = 2
  /\ Len(ExtCalls) = 2 /\ ExtCalls[2].args = <<"f">>
  /\ DOMAIN retVals.M = Range(extList[last.app])

\* ------------------------------------------------------------- C31
\* C31: dataFor(key) returns a Map, the one it has stored for the key,
\* and the Maps of different keys are different Maps.
C31_DataForStable ==
  /\ last.fn = "dataFor" =>
        /\ last.out = "returned"
        /\ last.item \in DOMAIN dataMaps[last.app]
        /\ last.ret = dataMaps[last.app][last.item]
  /\ \A a \in Apps : \A j, k \in DOMAIN dataMaps[a] :
        j # k => dataMaps[a][j] # dataMaps[a][k]

\* ------------------------------------------------------------- C32
HookLog == SelectSeq(log, LAMBDA e : e.t = "hook")
\* the hooks of o that listen for ev
HooksFor(o, ev) == SelectSeq(hooks[o], LAMBDA h : h.ename = ev)

\* C32: every hook is for a method its extension has; when an event is
\* triggered on the extension the method of each of its hooks for that
\* event is called once, with the arguments the event was triggered with.
C32_HookPassesEventArgs ==
  /\ \A o \in Objs : \A k \in DOMAIN hooks[o] : HasMethod(ClassOf(o), hooks[o][k].mname)
  /\ (last.fn = "trigger" /\ log # <<>>) =>
        /\ Len(HookLog) = Len(HooksFor(last.item, last.ev))
        /\ \A k \in DOMAIN HookLog :
             /\ HookLog[k].ev = HooksFor(last.item, last.ev)[k].mname
             /\ HookLog[k].args = last.items

\* ------------------------------------------------------------- C33
Commits == {"use", "make"}
\* the host's commit has ended with the error for an id in use
DuplicateEnded ==
  /\ last.fn \in Commits /\ last.out = "RangeError"
  /\ log # <<>> /\ log[Len(log)].ev = "already registered"

C33_State == DuplicateEnded => Len(log) = 1

C33_Step ==
  (At("use", "has") /\ Top.ev \in DOMAIN mods) =>
    /\ stack' = <<>> /\ last'.out = "RangeError"
    /\ UNCHANGED <<mods, modIds, extList, ext, ws, extApp, created>>

\* C33: use(id) whose id is already a key of mods throws RangeError, and
\* the commit has done nothing by then: no hook of the module has run,
\* nothing was added to the Application, mods and modIds are as before.
C33_DuplicateIdRejected == []C33_State /\ [][C33_Step]_vars

\* an Extension class under an id in use, with an Application captured
C33_Witness ==
  /\ DuplicateEnded
  /\ last.item \in Classes /\ last.app \in Apps
  /\ extList[last.app] = <<>>
  /\ last.item \notin DOMAIN modIds

\* ------------------------------------------------------------- C34
\* every module that has an id is found under that id
IdsLeadBack == \A m \in DOMAIN modIds : modIds[m] \in DOMAIN mods /\ mods[modIds[m]] = m

\* C34: mods and modIds are reverse lookups of each other: mods maps id
\* to a module exactly when modIds maps that module to id.
C34_ReverseLookups ==
  /\ \A id \in DOMAIN mods : mods[id] \in DOMAIN modIds /\ modIds[mods[id]] = id
  /\ IdsLeadBack

\* ------------------------------------------------------------- C35
\* a commit without an id has settled on one
IdSettled == At("use", "has") /\ last.fn \in Commits /\ last.ev = None
\* the modules that declare an id of their own: the object {id: 'tag'},
\* and the extensions whose id getter has an answer
DeclaresId(mod) ==
  \/ mod = "tagged"
  \/ mod \in Objs /\ (OverridesId(ClassOf(mod)) \/ extApp[mod] \in Apps)
DeclaredId(mod) == IF mod = "tagged" THEN "tag" ELSE IdOf(mod)

\* the statement as written: whatever module declares an id is given it
C35_DeclaredIdFirst ==
  IdSettled =>
    Top.ev = IF DeclaresId(Top.obj) THEN DeclaredId(Top.obj)
             ELSE IF Top.obj \in Apps THEN ModuleId(Top.obj, Top.obj)
             ELSE IF Top.app \in Apps THEN ModuleId(Top.app, Top.obj)
             ELSE Name(Top.obj)

\* the commit ended because the extension has no Application to ask
NoOwnerEnded ==
  /\ last.fn \in Commits /\ last.out = "RangeError"
  /\ log # <<>> /\ log[Len(log)].ev = "App instance not set"

\* C35: without an id, use() takes the id getter of a module that is an
\* Extension instance (which throws when the extension has no owner and
\* does not override the getter); else, for an Application, the id its
\* own registry gives it; else, with an Application captured, the id that
\* Application's registry gives the module; else the name of the
\* function or of the object's constructor.  An id property of any other
\* module is not looked at.
C35_ResolutionOrder ==
  /\ IdSettled =>
        /\ Top.obj \in Objs =>
             /\ OverridesId(ClassOf(Top.obj)) \/ extApp[Top.obj] \in Apps
             /\ Top.ev = IdOf(Top.obj)
        /\ Top.obj \in Apps => Top.ev = ModuleId(Top.obj, Top.obj)
        /\ (Top.obj \notin Objs \cup Apps /\ Top.app \in Apps) => Top.ev = ModuleId(Top.app, Top.obj)
        /\ (Top.obj \notin Objs \cup Apps /\ Top.app \notin Apps) => Top.ev = Name(Top.obj)
  /\ NoOwnerEnded =>
        /\ last.ev = None /\ last.item \in Objs
        /\ ~OverridesId(ClassOf(last.item)) /\ extApp[last.item] \notin Apps
        /\ Len(log) = 1

\* an extension of the captured Application, committed without an id
C35_Witness ==
  /\ IdSettled
  /\ Top.obj \in Objs /\ Top.app \in Apps /\ extApp[Top.obj] = Top.app
  /\ Top.ev = "page"

\* ------------------------------------------------------------- C36
\* the host's commit has returned
Committed == last.fn \in Commits /\ last.out = "returned"

C36_State ==
  Committed =>
    /\ last.item \in DOMAIN modIds
    /\ mods[modIds[last.item]] = last.item
    /\ (last.app \in Apps /\ last.item \in Objs) => last.item \in added[last.app]
    /\ (last.app \in Apps /\ last.item \in Classes) =>
         \E o \in added[last.app] : ClassOf(o) = last.item

C36_Step ==
  /\ (last'.fn = "for" /\ ops' # ops) =>
        /\ UNCHANGED <<mods, modIds, extList, ext, ws, added, extApp>>
        /\ regApp' = IF last'.item \in Apps THEN last'.item ELSE regApp
        /\ last'.item \in Modules => last'.item \in handles'
  /\ (mods' # mods \/ modIds' # modIds) => At("use", "set")
  /\ (extList' # extList \/ added' # added) => (Running /\ stack[1].fn = "use")

\* C36: for(mod) keeps the module for a later use(), and the Application
\* when the module is one; it changes neither mods, modIds nor the
\* extensions of any Application.  Only a use() enters a module in the
\* Maps, and only a use() gives an Extension class or instance to the
\* captured Application; a use() that returns has done both.
C36_TwoPhase == []C36_State /\ [][C36_Step]_vars

\* for(app), for(cls), use(): the class is in the Maps and its instance in
\* the Application
C36_Witness ==
  /\ Committed /\ last.fn = "use"
  /\ last.item \in Classes /\ last.app \in Apps
  /\ Len(extList[last.app]) = 1 /\ ClassOf(extList[last.app][1]) = last.item

\* ------------------------------------------------------------- C37
\* the host's start(), made while isStarted was false, ended in an error
FirstStartThrew ==
  /\ last.fn \in {"start", "whenReady"} /\ last.pre = "unset"
  /\ last.out = "threw"
\* the constructor's init() ended in an error
FirstInitThrew == last.fn = "WebApp" /\ last.out = "threw"
NoNestedCall == \A k \in DOMAIN log : log[k].t # "call"
\* a call of fn that a handler made during the dispatch has returned
NestedDone(fn) == \E k \in DOMAIN log : log[k].t = "return" /\ log[k].ev = fn

C37_AsStated_State ==
  /\ FirstInitThrew => ~inited[last.app]
  /\ FirstStartThrew => ~started[last.app]
C37_AsStated_Step ==
  (FirstStartThrew /\ ops' # ops /\ last'.fn = "start" /\ last'.app = last.app) =>
    last'.pre = "unset"

\* C37 as it is stated: whenever a handler throws during the first
\* start() (the first init()) the latch is false afterwards, and the next
\* start() finds it unset.
C37_ThrowAlwaysLeavesUnset == []C37_AsStated_State /\ [][C37_AsStated_Step]_vars

C37_State ==
  /\ (FirstInitThrew /\ ~NestedDone("init")) => ~inited[last.app]
  /\ (FirstStartThrew /\ ~NestedDone("start")) => ~started[last.app]
  /\ (last.fn = "start" /\ last.pre = "unset") =>
        /\ EventsOf(1) \subseteq {"start"}
        /\ (last.out = "returned" /\ NoNestedCall) =>
             Range(Targets(1)) = {last.app} \cup Range(extList[last.app])

C37_Step ==
  (/\ FirstStartThrew /\ ~NestedDone("start")
   /\ ops' # ops /\ last'.fn = "start" /\ last'.app = last.app) =>
    last'.pre = "unset"

\* C37: when a handler throws while the first start() dispatches `start`,
\* and no start() that a handler made during that dispatch has returned
\* before, isStarted stays false, so the next start() finds the latch
\* unset and fires `start` once more, on the Application and on every
\* extension, those that had it before included; likewise for the first
\* init() and isInited.
C37_ThrowKeepsLatchUnset == []C37_State /\ [][C37_Step]_vars

\* the second first-time start() has returned: `start` went out twice
C37_Witness ==
  /\ last.fn = "start" /\ last.pre = "unset" /\ last.out = "returned"
  /\ NoNestedCall
  /\ nStart[last.app] = 2 /\ nest = 1
  /\ extList[last.app] # <<>>
  /\ started[last.app]

\* ------------------------------------------------------------- C38
\* the ready callback runs on an Application the host has started itself
LateAutoStart == last.fn = "whenReady" /\ last.pre = "set"

\* the extensions registered while the current call was running
StoredNow == {log[k].tgt : k \in {i \in DOMAIN log : log[i].t = "stored"}}

C38_State ==
  LateAutoStart =>
    /\ EventsOf(1) \subseteq {"restart"}
    /\ nStart[last.app] = 1
    /\ last.out = "returned" =>
         /\ {last.app} \cup (Range(extList[last.app]) \ StoredNow)
              \subseteq Range(Targets(1))
         /\ Range(Targets(1)) \subseteq {last.app} \cup Range(extList[last.app])

C38_Step ==
  \A a \in Apps :
    /\ (ready[a] /\ ~ready'[a]) =>
         /\ last'.fn = "whenReady" /\ last'.app = a
         /\ stack' # <<>> /\ stack'[1].fn = "start"
    /\ (ready[a] /\ last'.fn = "start" /\ ops' # ops) => ready'[a]

\* C38: the ready callback stays registered whatever the host does: a
\* start() by the host does not take it back.  When it runs on an
\* Application that is already started it is not skipped: it calls
\* start(), which fires `restart`, not `start`, on the Application and on
\* all its extensions.
C38_LateAutoStartRestarts ==
  /\ []C38_State /\ [][C38_Step]_vars
  /\ (LateAutoStart /\ last.out = "running") ~>
       (LateAutoStart /\ last.out = "returned" /\ EventsOf(1) = {"restart"})

\* start() by the host, then the ready signal, with an extension on board
C38_Witness ==
  /\ LateAutoStart /\ last.out = "returned"
  /\ extList[last.app] # <<>> /\ StoredNow = {}
  /\ Len(Deliveries(1)) = Len(extList[last.app]) + 1
  /\ EventsOf(1) = {"restart"}

\* ------------------------------------------------------------- C39
LiveCall == last.fn \in {"triggerExt", "extCall"}
\* the extensions the running loop has visited, in order
Visited == IF last.fn = "triggerExt" THEN Targets(1) ELSE Invoked
\* the extensions the loop has something to do with, as the list is now
ToVisit == IF last.fn = "triggerExt" THEN extList[last.app] ELSE Callable(last.app)

C39_State ==
  LiveCall =>
    /\ IsPrefix(Visited, ToVisit)
    /\ last.out = "returned" => Visited = ToVisit

\* C39: triggerExt and extCall walk the list of extensions itself, not a
\* copy: what the loop has visited is always a prefix of the list as it
\* is now, and the call returns only when the two are equal.  So an
\* extension registered by a handler or a callback during the loop is
\* visited by that loop, after all the earlier ones; each registration
\* costs the loop one more visit before it can end; with no registration
\* the loop visits each extension exactly once.  When the handlers
\* register finitely many extensions the call ends.
C39_LiveFanOut ==
  /\ []C39_State
  /\ (LiveCall /\ last.out = "running") ~> (LiveCall /\ last.out = "returned")

\* a returned triggerExt whose last visit is to an extension that a
\* handler of an earlier visit registered
C39_Witness ==
  /\ last.fn = "triggerExt" /\ last.out = "returned"
  /\ Len(Visited) >= 2
  /\ StoredNow = {Visited[Len(Visited)]}
  /\ Cardinality(Range(Visited)) = Len(Visited)

\* ------------------------------------------------------------- C40
\* o is registered in a: in its list and under some id of its map
RegisteredIn(a, o) ==
  /\ o \in Range(extList[a])
  /\ \E id \in DOMAIN ext[a] : ext[a][id] = o
\* add(o) found the id of o taken by another extension
Rejected == \E k \in DOMAIN log : log[k].t = "error" /\ log[k].tgt = last.item

C40_State ==
  /\ (last.fn = "add" /\ last.item \in Objs /\ last.out = "returned") =>
       /\ extApp[last.item] = last.app
       /\ ~Rejected => RegisteredIn(last.app, last.item)
       /\ Rejected => last.item \notin Range(extList[last.app])
  /\ (last.fn = "start" /\ last.out = "returned") =>
       Range(extList[last.app]) \subseteq Range(Targets(1))

C40_Step ==
  \A a \in Apps :
    /\ IsPrefix(extList[a], extList'[a])
    /\ \A id \in DOMAIN ext[a] : id \in DOMAIN ext'[a] /\ ext'[a][id] = ext[a][id]

\* C40: add(ext) to another Application moves nothing.  When add(ext)
\* has returned the app of ext is the Application it was added to, and
\* ext is registered there unless its id was taken there by another
\* extension, in which case only its app has changed.  No step removes
\* an extension from the list or the map of any Application, so the
\* Application ext came from still holds it, and a dispatch of that
\* Application reaches every extension of its list, whatever their app.
C40_NoOwnershipTransfer == []C40_State /\ [][C40_Step]_vars

\* start() of an Application has returned after delivering to an extension
\* of its list that is registered in the other Application, its app
C40_Witness ==
  /\ last.fn = "start" /\ last.out = "returned"
  /\ \E o \in Range(extList[last.app]) :
       /\ extApp[o] \in Apps \ {last.app}
       /\ RegisteredIn(extApp[o], o) /\ RegisteredIn(last.app, o)
       /\ o \in Range(Targets(1))
====
